---- MODULE Spec2Model ----
(***************************************************************************)
(* Course-export QC tool: the manifest-resolution and classification       *)
(* pipeline of the browser page (handleFile -> extractArchive ->           *)
(* processAndAnalyze -> analyzeContent -> runAndDisplayAccessibilityChecks)*)
(*                                                                         *)
(* Text is modelled as a sequence of tokens, so that startsWith, endsWith  *)
(* and includes are computed on the text as the code computes them.  The   *)
(* tokens are identifiers, path separators, extensions and the vendor      *)
(* markers the code searches for.  A parsed XML/HTML document is a record  *)
(* of the elements the code reads with querySelector.                      *)
(***************************************************************************)
EXTENDS Integers, Sequences, FiniteSets, TLC

(***************************************************************************)
(* JavaScript values                                                       *)
(***************************************************************************)

\* null / undefined: a text no attribute or element can have.
Null == <<"#null">>

\* JS truthiness of a string-or-null value.
Falsy(s) == s = Null \/ s = <<>>

\* a || b on string-or-null values.
Or(a, b) == IF Falsy(a) THEN b ELSE a

\* String.prototype.startsWith
StartsWith(s, p) == Len(p) <= Len(s) /\ SubSeq(s, 1, Len(p)) = p

\* String.prototype.endsWith
EndsWith(s, p) == Len(p) <= Len(s) /\ SubSeq(s, Len(s) - Len(p) + 1, Len(s)) = p

\* String.prototype.includes
Includes(s, p) == \E i \in 0..(Len(s) - Len(p)) : SubSeq(s, i + 1, i + Len(p)) = p

\* A JS number: an integer or NaN.
Num(n) == [nan |-> FALSE, n |-> n]
NaN == [nan |-> TRUE, n |-> 0]

Digits == {"0", "1", "2", "3", "4", "5", "6", "7", "8", "9"}

DigitValue(c) ==
    CASE c = "0" -> 0 [] c = "1" -> 1 [] c = "2" -> 2 [] c = "3" -> 3
      [] c = "4" -> 4 [] c = "5" -> 5 [] c = "6" -> 6 [] c = "7" -> 7
      [] c = "8" -> 8 [] c = "9" -> 9

RECURSIVE LeadingDigits(_, _)
\* value of the longest prefix of digits of s, given the value acc read so far
LeadingDigits(s, acc) ==
    IF s = <<>> \/ Head(s) \notin Digits THEN acc
    ELSE LeadingDigits(Tail(s), 10 * acc + DigitValue(Head(s)))

RECURSIVE SkipBlanks(_)
SkipBlanks(s) == IF s # <<>> /\ Head(s) = " " THEN SkipBlanks(Tail(s)) ELSE s

\* parseInt(s, 10) on a text of one-character tokens: blanks, an optional
\* sign, then digits up to the first other character; NaN without a digit.
ParseInt(s) ==
    LET t == SkipBlanks(s)
        neg == t # <<>> /\ Head(t) = "-"
        u == IF t # <<>> /\ Head(t) \in {"-", "+"} THEN Tail(t) ELSE t
    IN  IF u = <<>> \/ Head(u) \notin Digits THEN NaN
        ELSE Num(IF neg THEN 0 - LeadingDigits(u, 0) ELSE LeadingDigits(u, 0))

(***************************************************************************)
(* Vendor markers and path fragments searched for by the classifier        *)
(***************************************************************************)

LarMarker == <<"associatedcontent", "/", "imscc_xmlv1p1", "/", "learning-application-resource">>
QtiMarker == <<"imsqti_xmlv1p2", "/", "imscc_xmlv1p1", "/", "assessment">>
DiscussionMarker == <<"imsdt_xmlv1p1">>
LinkMarker == <<"imswl_xmlv1p1">>
WebContent == <<"webcontent">>
SubHeader == <<"ContextModuleSubHeader">>
WikiPrefix == <<"wiki_content", "/">>
WebResourcesPrefix == <<"web_resources", "/">>
CourseSettingsPrefix == <<"course_settings", "/">>
Active == <<"active">>
Unpublished == <<"unpublished">>
ManifestName == <<"imsmanifest", ".", "xml">>
ModuleMetaName == <<"course_settings", "/", "module_meta", ".", "xml">>

(***************************************************************************)
(* Parsed documents                                                        *)
(***************************************************************************)

\* What DOMParser yields for a text, as far as the code looks into it:
\*   empty           the text is the empty string (falsy)
\*   title .. type   textContent of the first such element, Null if none
\*   meta            content attribute of meta[name="workflow_state"]
\*   body            "none" | "text" | "elements": what the analysable body
\*                   (html body, <description>, <text>) holds
\*   resources       the <resource> elements, in document order
\*   items           the <item> elements below <organizations>
\*   modules         the <module> elements of module_meta.xml
BaseDoc ==
    [empty |-> FALSE, title |-> Null, workflow_state |-> Null, meta |-> Null,
     available |-> Null, quiz_type |-> Null, type |-> Null, body |-> "none",
     resources |-> <<>>, items |-> <<>>, modules |-> <<>>]

EmptyText == [BaseDoc EXCEPT !.empty = TRUE]

\* fileContents: the name -> content object, as the sequence of its entries in
\* insertion order (the order of Object.keys).
Has(fc, name) == \E i \in 1..Len(fc) : fc[i].name = name

\* the parsed text of fileContents[name]; parsing undefined or '' yields a
\* document without any of the elements looked for
Get(fc, name) ==
    IF Has(fc, name) THEN fc[CHOOSE i \in 1..Len(fc) : fc[i].name = name].content
    ELSE EmptyText

\* fileContents[name] is truthy: present and not the empty string
Truthy(fc, name) == Has(fc, name) /\ ~Get(fc, name).empty

\* Object.keys(fc).find(n => n.startsWith(prefix) && n.endsWith(suffix)): the
\* first key (in insertion order) with that prefix and suffix, Null if none
FindKey(fc, prefix, suffix) ==
    LET hits == {i \in 1..Len(fc) : StartsWith(fc[i].name, prefix) /\ EndsWith(fc[i].name, suffix)}
    IN  IF hits = {} THEN Null
        ELSE fc[CHOOSE i \in hits : \A j \in hits : i <= j].name

\* Map: sequence of [k, v] in insertion order; set() on an existing key keeps
\* its place and replaces its value.
MapHas(m, k) == \E i \in 1..Len(m) : m[i].k = k

MapGet(m, k) == m[CHOOSE i \in 1..Len(m) : m[i].k = k].v

MapSet(m, k, v) ==
    IF MapHas(m, k)
    THEN [i \in 1..Len(m) |-> IF m[i].k = k THEN [k |-> k, v |-> v] ELSE m[i]]
    ELSE Append(m, [k |-> k, v |-> v])


(***************************************************************************)
(* imsmanifest.xml: <item> elements below <organizations>                  *)
(*   an item is [identifier, identifierref, identifierRef, title, parent];  *)
(*   identifierref and identifierRef are its two attributes of those       *)
(*   names (attribute names of an XML document are case-sensitive), Null   *)
(*   when absent; parent is the index of the enclosing <item>, 0 directly  *)
(*   below <organization>; an item's own <title> precedes its child items, *)
(*   as the IMS schema orders them.                                        *)
(***************************************************************************)

RECURSIVE IsDescendant(_, _, _)
\* item j lies inside item i
IsDescendant(items, j, i) ==
    /\ items[j].parent # 0
    /\ \/ items[j].parent = i
       \/ IsDescendant(items, items[j].parent, i)

\* indexes of the <item> elements inside item i, in document order
Descendants(items, i) == SelectSeq([j \in 1..Len(items) |-> j], LAMBDA j : IsDescendant(items, j, i))

\* itemEl.querySelector('title')?.textContent: text of the first <title> inside
\* item i (its own, else the first one of a nested item); Null if none
ItemTitleQuery(items, i) ==
    IF items[i].title # Null THEN items[i].title
    ELSE LET ds == SelectSeq(Descendants(items, i), LAMBDA j : items[j].title # Null)
         IN  IF ds = <<>> THEN Null ELSE items[ds[1]].title

\* organizationEl.querySelector('title'): the first <title> of any item
OrgTitleQuery(items) ==
    LET ts == SelectSeq([j \in 1..Len(items) |-> j], LAMBDA j : items[j].title # Null)
    IN  IF ts = <<>> THEN Null ELSE items[ts[1]].title

\* manifestItem.parentElement.querySelector('title'), Null when it finds no
\* element (the code then reads .textContent of null)
ParentTitleQuery(items, i) ==
    IF items[i].parent = 0 THEN OrgTitleQuery(items) ELSE ItemTitleQuery(items, items[i].parent)

\* findManifestItemById: index of the first <item> with that identifier, 0 = null
findManifestItemById(items, id) ==
    IF Falsy(id) \/ ~\E i \in 1..Len(items) : items[i].identifier = id THEN 0
    ELSE CHOOSE i \in 1..Len(items) :
            items[i].identifier = id /\ \A j \in 1..(i - 1) : items[j].identifier # id

(***************************************************************************)
(* course_settings/module_meta.xml                                         *)
(*   a module is [identifier, title, workflow_state, items]; a module item *)
(*   is [identifier, title, workflow_state, indent, content_type]; a field *)
(*   is Null when the element is absent.                                   *)
(***************************************************************************)

\* moduleEl.querySelector(f)?.textContent: the module's own element f if it has
\* one, else the first one among its items
ModuleQuery(m, f) ==
    IF m[f] # Null THEN m[f]
    ELSE LET its == SelectSeq(m.items, LAMBDA it : it[f] # Null)
         IN  IF its = <<>> THEN Null ELSE its[1][f]

\* first <indent> / <content_type> inside a <module>: modules have none of
\* their own
ModuleItemQuery(m, f) ==
    LET its == SelectSeq(m.items, LAMBDA it : it[f] # Null)
    IN  IF its = <<>> THEN Null ELSE its[1][f]

StatusOf(text) == IF text = Active THEN Active ELSE Unpublished

NotAvailable == <<"N", "/", "A">>

\* one entry of itemMetaMap, from the texts found in a "module, item" element
MetaEntry(ws, indent, ct) ==
    [status |-> StatusOf(ws),
     indent |-> ParseInt(Or(indent, <<"0">>)),
     contentType |-> Or(ct, NotAvailable)]

RECURSIVE MetaOfItems(_, _, _)
MetaOfItems(its, i, map) ==
    IF i > Len(its) THEN map
    ELSE MetaOfItems(its, i + 1,
            IF Falsy(its[i].identifier) THEN map
            ELSE MapSet(map, its[i].identifier,
                        MetaEntry(its[i].workflow_state, its[i].indent, its[i].content_type)))

RECURSIVE MetaOfModules(_, _, _)
MetaOfModules(mods, i, map) ==
    IF i > Len(mods) THEN map
    ELSE LET m == mods[i]
             own == IF Falsy(m.identifier) THEN map
                    ELSE MapSet(map, m.identifier,
                                MetaEntry(ModuleQuery(m, "workflow_state"),
                                          ModuleItemQuery(m, "indent"),
                                          ModuleItemQuery(m, "content_type")))
         IN  MetaOfModules(mods, i + 1, MetaOfItems(m.items, 1, own))

\* itemMetaMap: identifier -> {status, indent, contentType} over the
\* "module, item" elements of module_meta.xml, empty when the file is missing
itemMetaMap(fc) ==
    IF Truthy(fc, ModuleMetaName) THEN MetaOfModules(Get(fc, ModuleMetaName).modules, 1, <<>>)
    ELSE <<>>

\* The default with status 'unknown' in place of 'unpublished'.
DefaultMetaUnknown == [status |-> <<"unknown">>, indent |-> Num(0), contentType |-> Null]

\* { status: 'unpublished', indent: 0 }
DefaultMeta == [status |-> Unpublished, indent |-> Num(0), contentType |-> Null]

\* itemMetaMap.get(id) || { status: 'unpublished', indent: 0 }
MetaFor(map, id) == IF MapHas(map, id) THEN MapGet(map, id) ELSE DefaultMeta

RECURSIVE ResourcesInto(_, _, _)
ResourcesInto(rs, i, map) ==
    IF i > Len(rs) THEN map
    ELSE ResourcesInto(rs, i + 1,
            IF Falsy(rs[i].identifier) THEN map
            ELSE MapSet(map, rs[i].identifier,
                        [type |-> rs[i].type, href |-> rs[i].href,
                         dependencies |-> rs[i].dependencies]))

\* resourceMap: identifier -> {type, href, dependencies} over the <resource>
\* elements that have an identifier
resourceMap(manifest) == ResourcesInto(manifest.resources, 1, <<>>)


(***************************************************************************)
(* processAndAnalyze, part 1: the module list                              *)
(***************************************************************************)

UntitledModule == <<"Untitled Module">>
Untitled == <<"Untitled">>
Unspecified == <<"unspecified">>

\* itemMetaMap.get(itemId) || { status: 'unpublished', indent: 0, contentType: 'N/A' }
ModuleItemMetaFor(map, id) ==
    IF MapHas(map, id) THEN MapGet(map, id) ELSE [DefaultMeta EXCEPT !.contentType = NotAvailable]

\* MetaModuleItem storing parseInt of the <indent> text as it comes, without
\* the Number.isFinite test.
MetaModuleItemRawIndent(mItem, items, map) ==
    LET itemId == mItem.identifier
        metaFromMap == ModuleItemMetaFor(map, itemId)
        mi == findManifestItemById(items, itemId)
        identifierRef == IF mi = 0 THEN Null ELSE Or(items[mi].identifierref, Null)
        titleFromManifest == IF mi = 0 THEN Null ELSE ItemTitleQuery(items, mi)
    IN  [title |-> Or(titleFromManifest, Or(mItem.title, Or(itemId, Or(identifierRef, Untitled)))),
         identifier |-> itemId,
         identifierref |-> identifierRef,
         status |-> Or(metaFromMap.status, Unpublished),
         indent |-> ParseInt(Or(mItem.indent, <<>>)),
         clarifiedType |-> Unspecified,
         contentType |-> metaFromMap.contentType,
         manifestItem |-> mi]

\* One module item built from <item> k of <module> m of module_meta.xml.
MetaModuleItem(mItem, items, map) ==
    LET itemId == mItem.identifier
        metaFromMap == ModuleItemMetaFor(map, itemId)
        indentFromMetaXml == ParseInt(Or(mItem.indent, <<>>))
        fromMap == IF metaFromMap.indent.nan \/ metaFromMap.indent.n = 0
                   THEN Num(0) ELSE metaFromMap.indent
        mi == findManifestItemById(items, itemId)
        identifierRef == IF mi = 0 THEN Null ELSE Or(items[mi].identifierref, Null)
        titleFromManifest == IF mi = 0 THEN Null ELSE ItemTitleQuery(items, mi)
    IN  [title |-> Or(titleFromManifest, Or(mItem.title, Or(itemId, Or(identifierRef, Untitled)))),
         identifier |-> itemId,
         identifierref |-> identifierRef,
         status |-> Or(metaFromMap.status, Unpublished),
         indent |-> IF indentFromMetaXml.nan THEN fromMap ELSE indentFromMetaXml,
         clarifiedType |-> Unspecified,
         contentType |-> metaFromMap.contentType,
         manifestItem |-> mi]

\* One child item of the fallback branch, from manifest <item> d.
FallbackChildItem(items, d, map) ==
    LET childId == items[d].identifier
        childIdRef == items[d].identifierref
        childMeta == MetaFor(map, childId)
    IN  [title |-> Or(ItemTitleQuery(items, d), Or(childIdRef, Or(childId, Untitled))),
         identifier |-> childId,
         identifierref |-> childIdRef,
         status |-> childMeta.status,
         indent |-> childMeta.indent,
         clarifiedType |-> Unspecified,
         contentType |-> Or(childMeta.contentType, NotAvailable),
         manifestItem |-> d]

\* The modules built from module_meta.xml.
MetaModules(mods, items, map) ==
    [k \in 1..Len(mods) |->
        [title |-> Or(ModuleQuery(mods[k], "title"), UntitledModule),
         items |-> [n \in 1..Len(mods[k].items) |-> MetaModuleItem(mods[k].items[n], items, map)],
         status |-> StatusOf(ModuleQuery(mods[k], "workflow_state"))]]

\* ModuleElements taking the <item> elements directly below <organizations>.
ModuleElementsTopLevel(items) ==
    SelectSeq([j \in 1..Len(items) |-> j], LAMBDA j : items[j].parent = 0)

\* organizations.children that are <item> elements, organizations being the
\* first <item> below <organizations>
ModuleElements(items) == SelectSeq([j \in 1..Len(items) |-> j], LAMBDA j : items[j].parent = 1)

\* The modules built from the manifest's organization tree.
FallbackModules(items, map) ==
    LET kids == ModuleElements(items)
    IN  [k \in 1..Len(kids) |->
            [title |-> Or(ItemTitleQuery(items, kids[k]), UntitledModule),
             items |-> LET ds == Descendants(items, kids[k])
                       IN  [n \in 1..Len(ds) |-> FallbackChildItem(items, ds[n], map)],
             status |-> MetaFor(map, items[kids[k]].identifier).status]]

\* The modules one run appends to courseStructure.  Each module item also
\* carries manifestItem, the manifest <item> the loop found for it (0: none):
\* the code keeps that element in resourceToManifestItemMap, not in the item.
BuildModules(fc) ==
    LET items == Get(fc, ManifestName).items
        map == itemMetaMap(fc)
    IN  IF items = <<>> THEN <<>>                       \* organizations is null
        ELSE IF Truthy(fc, ModuleMetaName)
        THEN MetaModules(Get(fc, ModuleMetaName).modules, items, map)
        ELSE FallbackModules(items, map)

\* all module items of a module list, in order
RECURSIVE FlatItems(_)
FlatItems(mods) == IF mods = <<>> THEN <<>> ELSE Head(mods).items \o FlatItems(Tail(mods))

\* inModuleItemIdentifiers after the module loop
inModuleItemIdentifiers(mods) ==
    {it.identifier : it \in {FlatItems(mods)[n] : n \in 1..Len(FlatItems(mods))}} \ {Null, <<>>}

RECURSIVE R2MInto(_, _, _)
R2MInto(its, i, map) ==
    IF i > Len(its) THEN map
    ELSE R2MInto(its, i + 1,
            IF Falsy(its[i].identifierref) THEN map
            ELSE MapSet(map, its[i].identifierref, its[i].manifestItem))

\* resourceToManifestItemMap after the module loop: identifierref -> <item>
resourceToManifestItemMap(mods) == R2MInto(FlatItems(mods), 1, <<>>)


(***************************************************************************)
(* processAndAnalyze, part 2: the resource classifier                      *)
(***************************************************************************)

Slash == <<"/">>
DotXml == <<".", "xml">>
DotHtml == <<".", "html">>
Html == <<"html">>
AssignmentSettingsXml == <<"assignment_settings", ".", "xml">>

isAssignment(type, href) ==
    /\ ~Falsy(type) /\ Includes(type, LarMarker)
    /\ ~Falsy(href) /\ EndsWith(href, Html)
    /\ ~StartsWith(href, CourseSettingsPrefix)

isQuizOrSurvey(type) == ~Falsy(type) /\ Includes(type, QtiMarker)

isDiscussion(type) == ~Falsy(type) /\ Includes(type, DiscussionMarker)

isPage(type, href) == type = WebContent /\ ~Falsy(href) /\ StartsWith(href, WikiPrefix)

isFile(type, href) == type = WebContent /\ ~Falsy(href) /\ StartsWith(href, WebResourcesPrefix)

\* itemData.type.includes('imswl_xmlv1p1'): the caller has excluded type = null
isLink(type) == Includes(type, LinkMarker)

isHeader(contentType) == contentType = SubHeader

\* The branch of the if / else-if chain that runs.
Branch(type, href, contentType) ==
    IF isLink(type) THEN "link"
    ELSE IF isHeader(contentType) THEN "header"
    ELSE IF isFile(type, href) THEN "file"
    ELSE IF isPage(type, href) THEN "page"
    ELSE IF isAssignment(type, href) THEN "assignment"
    ELSE IF isQuizOrSurvey(type) THEN "quiz"
    ELSE IF isDiscussion(type) THEN "discussion"
    ELSE "none"

\* resource.dependencies[0]
FirstDependency(resource) ==
    IF resource.dependencies = <<>> THEN Null ELSE resource.dependencies[1]

\* What the else-if chain yields: itemData, analysisHref, analysisType.
Outcome(itemData) == [itemData |-> itemData, analysisHref |-> Null, analysisType |-> "html"]

Typed(base, clarifiedType) == [base EXCEPT !.itemData.clarifiedType = clarifiedType]

\* PageBranch without its last statement: the page gets no analysis target.
PageBranchNoTarget(base, fc) ==
    LET href == base.itemData.href
        d == Get(fc, href)
    IN  [Typed(base, <<"page">>) EXCEPT
            !.itemData.title = IF Truthy(fc, href) THEN Or(d.title, @) ELSE @,
            !.itemData.status = IF Truthy(fc, href) THEN StatusOf(d.meta) ELSE @]

\* else if (isPage)
PageBranch(base, fc) ==
    LET href == base.itemData.href
        d == Get(fc, href)
    IN  [Typed(base, <<"page">>) EXCEPT
            !.itemData.title = IF Truthy(fc, href) THEN Or(d.title, @) ELSE @,
            !.itemData.status = IF Truthy(fc, href) THEN StatusOf(d.meta) ELSE @,
            !.analysisHref = href]

\* AssignmentBranch looking for the settings and the html file of any
\* resource, not only below "{idRef}/".
AssignmentBranchAnyFolder(base, idRef, fc) ==
    LET assignmentSettingsPath == FindKey(fc, <<>>, AssignmentSettingsXml)
        assignmentHtmlFile == FindKey(fc, <<>>, DotHtml)
        found == ~Falsy(assignmentSettingsPath)
        d == Get(fc, assignmentSettingsPath)
    IN  [Typed(base, <<"assignment">>) EXCEPT
            !.itemData.title = IF found THEN Or(d.title, @) ELSE @,
            !.itemData.status = IF found THEN StatusOf(d.workflow_state) ELSE @,
            !.analysisHref = IF Falsy(assignmentHtmlFile) THEN Null ELSE assignmentHtmlFile]

\* else if (isAssignment)
AssignmentBranch(base, idRef, fc) ==
    LET assignmentSettingsPath ==
            FindKey(fc, idRef \o Slash, AssignmentSettingsXml)
        assignmentHtmlFile ==
            FindKey(fc, idRef \o Slash, DotHtml)
        found == ~Falsy(assignmentSettingsPath)
        d == Get(fc, assignmentSettingsPath)
    IN  [Typed(base, <<"assignment">>) EXCEPT
            !.itemData.title = IF found THEN Or(d.title, @) ELSE @,
            !.itemData.status = IF found THEN StatusOf(d.workflow_state) ELSE @,
            !.analysisHref = IF Falsy(assignmentHtmlFile) THEN Null ELSE assignmentHtmlFile]

\* else if (isQuizOrSurvey)
QuizBranch(base, resource, fc, rmap) ==
    LET depId == FirstDependency(resource)
        resolved == MapHas(rmap, depId) /\ Truthy(fc, MapGet(rmap, depId).href)
        d == Get(fc, MapGet(rmap, depId).href)
    IN  IF ~resolved THEN base
        ELSE [Typed(base, IF d.quiz_type = <<"survey">> THEN <<"survey">> ELSE <<"quiz">>) EXCEPT
                !.analysisHref = MapGet(rmap, depId).href,
                !.analysisType = "xml",
                !.itemData.title = Or(d.title, @),
                !.itemData.status = IF d.available = <<"true">> THEN Active ELSE Unpublished]

\* DiscussionBranch with the operands of || exchanged: the title the item
\* already has wins over the <title> of the topic file.
DiscussionBranchKeepsTitle(base, idRef, resource, fc) ==
    LET discussionXmlPath == idRef \o DotXml
        depId == FirstDependency(resource)
        body == Truthy(fc, discussionXmlPath)
        d == Get(fc, discussionXmlPath)
        settings == body /\ ~Falsy(depId) /\ Truthy(fc, depId \o DotXml)
        sd == Get(fc, depId \o DotXml)
    IN  [Typed(base, IF settings /\ sd.type = <<"announcement">>
                     THEN <<"announcement">> ELSE <<"discussion">>) EXCEPT
            !.itemData.title = IF body THEN Or(@, d.title) ELSE @,
            !.itemData.status = IF settings THEN StatusOf(sd.workflow_state) ELSE @,
            !.analysisHref = IF body THEN discussionXmlPath ELSE Null,
            !.analysisType = IF body THEN "discussion_xml" ELSE "html"]

\* else if (isDiscussion)
DiscussionBranch(base, idRef, resource, fc) ==
    LET discussionXmlPath == idRef \o DotXml
        depId == FirstDependency(resource)
        body == Truthy(fc, discussionXmlPath)
        d == Get(fc, discussionXmlPath)
        settings == body /\ ~Falsy(depId) /\ Truthy(fc, depId \o DotXml)
        sd == Get(fc, depId \o DotXml)
    IN  [Typed(base, IF settings /\ sd.type = <<"announcement">>
                     THEN <<"announcement">> ELSE <<"discussion">>) EXCEPT
            !.itemData.title = IF body THEN Or(d.title, @) ELSE @,
            !.itemData.status = IF settings THEN StatusOf(sd.workflow_state) ELSE @,
            !.analysisHref = IF body THEN discussionXmlPath ELSE Null,
            !.analysisType = IF body THEN "discussion_xml" ELSE "html"]

\* The else-if chain on one resource.
ApplyBranch(branch, idRef, resource, itemData, fc, rmap) ==
    LET base == Outcome(itemData)
    IN  CASE branch = "link" -> Typed(base, <<"link">>)
          [] branch = "header" -> Typed(base, <<"header">>)
          [] branch = "file" -> Typed(base, <<"file">>)
          [] branch = "page" -> PageBranch(base, fc)
          [] branch = "assignment" -> AssignmentBranch(base, idRef, fc)
          [] branch = "quiz" -> QuizBranch(base, resource, fc, rmap)
          [] branch = "discussion" -> DiscussionBranch(base, idRef, resource, fc)
          [] OTHER -> base

\* Listed without its condition: every classified resource is pushed.
ListedAlways(type, href) == TRUE

\* if (isAssignment || isQuizOrSurvey || isDiscussion || isPage): the item is
\* pushed to allCourseContent
Listed(type, href) ==
    \/ isAssignment(type, href)
    \/ isQuizOrSurvey(type)
    \/ isDiscussion(type)
    \/ isPage(type, href)

\* resourceToManifestItemMap.get(idRef): the manifest <item> of the resource,
\* 0 if none
ManifestItemOf(idRef, mods) ==
    IF MapHas(resourceToManifestItemMap(mods), idRef)
    THEN MapGet(resourceToManifestItemMap(mods), idRef) ELSE 0

\* const itemData = {...}: the item as built before the else-if chain.  rid
\* names the resource the item came from; the code does not store it.
NewItemData(idRef, resource, title, itemMeta, inModule, moduleTitle) ==
    [title |-> Or(title, idRef),
     type |-> resource.type,
     clarifiedType |-> Unspecified,
     href |-> resource.href,
     status |-> itemMeta.status,
     indent |-> itemMeta.indent,
     inModule |-> inModule,
     moduleTitle |-> moduleTitle,
     contentType |-> itemMeta.contentType,
     identifier |-> Null,
     identifierref |-> Null,
     rid |-> idRef]

\* What one iteration of the loop leaves: threw tells that it raised a
\* TypeError; otherwise listed tells whether itemData is pushed to
\* allCourseContent, and analysisHref whether a copy goes to
\* contentItemsForAnalysis.  initial is itemData before the else-if chain
\* (history).
Classified(threw, branch, initial, out, listed) ==
    [threw |-> threw,
     branch |-> branch,
     initial |-> initial,
     itemData |-> out.itemData,
     analysisHref |-> out.analysisHref,
     analysisType |-> out.analysisType,
     listed |-> listed]

\* The predicates, the else-if chain and the push guard on itemData; threw:
\* the iteration has already raised a TypeError, or raises it at
\* itemData.type.includes of a missing type attribute.
ClassifyItemData(idRef, resource, fc, rmap, threw, branch, itemData) ==
    Classified(threw, branch, itemData,
               ApplyBranch(branch, idRef, resource, itemData, fc, rmap),
               ~threw /\ Listed(resource.type, resource.href))

\* One iteration of the loop, manifestItem (mi) being the <item> found for the
\* resource: the iteration raises a TypeError when it reads .textContent of a
\* missing parent <title>.
ClassifyManifestItem(idRef, resource, fc, rmap, mods, items, imap, mi) ==
    LET itemIdentifier == IF mi = 0 THEN Null ELSE Or(items[mi].identifier, Null)
        inModule == itemIdentifier \in inModuleItemIdentifiers(mods)
        noParentTitle == inModule /\ mi # 0 /\ ParentTitleQuery(items, mi) = Null
        threw == noParentTitle \/ resource.type = Null
        itemMeta == MetaFor(imap, itemIdentifier)
    IN  ClassifyItemData(idRef, resource, fc, rmap, threw,
            IF threw THEN "none" ELSE Branch(resource.type, resource.href, itemMeta.contentType),
            NewItemData(idRef, resource,
                        IF mi = 0 THEN Null ELSE ItemTitleQuery(items, mi),
                        itemMeta, inModule,
                        IF inModule /\ mi # 0 /\ ~noParentTitle
                        THEN ParentTitleQuery(items, mi) ELSE Null))

\* One iteration of the loop over resourceMap.entries().
ClassifyResource(idRef, resource, fc, rmap, mods, items, imap) ==
    ClassifyManifestItem(idRef, resource, fc, rmap, mods, items, imap, ManifestItemOf(idRef, mods))

\* Pushed putting the item at the front of allCourseContent (unshift).
PushedFirst(acc, c) ==
    IF c.threw THEN [acc EXCEPT !.threw = TRUE, !.trace = Append(@, c)]
    ELSE [acc EXCEPT
            !.trace = Append(@, c),
            !.content = IF c.listed THEN <<c.itemData>> \o @ ELSE @,
            !.analysis = IF c.listed /\ ~Falsy(c.analysisHref)
                         THEN Append(@, [item |-> [c.itemData EXCEPT !.href = c.analysisHref],
                                         analysisType |-> c.analysisType])
                         ELSE @]

\* The end of one iteration: acc is [content, analysis, threw, trace], the
\* items pushed so far, whether the loop was left by an exception, and the
\* outcome of every iteration (history); c is the outcome of this iteration.
Pushed(acc, c) ==
    IF c.threw THEN [acc EXCEPT !.threw = TRUE, !.trace = Append(@, c)]
    ELSE [acc EXCEPT
            !.trace = Append(@, c),
            !.content = IF c.listed THEN Append(@, c.itemData) ELSE @,
            !.analysis = IF c.listed /\ ~Falsy(c.analysisHref)
                         THEN Append(@, [item |-> [c.itemData EXCEPT !.href = c.analysisHref],
                                         analysisType |-> c.analysisType])
                         ELSE @]

RECURSIVE ClassifyAll(_, _, _, _, _, _, _)
\* The loop over resourceMap.entries() from entry i on; an exception leaves it.
ClassifyAll(i, acc, fc, rmap, mods, items, imap) ==
    IF i > Len(rmap) \/ acc.threw THEN acc
    ELSE ClassifyAll(i + 1,
            Pushed(acc, ClassifyResource(rmap[i].k, rmap[i].v, fc, rmap, mods, items, imap)),
            fc, rmap, mods, items, imap)


(***************************************************************************)
(* processAndAnalyze, part 3: adding module items to the main list         *)
(***************************************************************************)

\* allCourseContent.find(i => i.title === title): index of the first item with
\* that title, 0 if none
FindByTitle(content, title) ==
    IF \E i \in 1..Len(content) : content[i].title = title
    THEN CHOOSE i \in 1..Len(content) :
            content[i].title = title /\ \A j \in 1..(i - 1) : content[j].title # title
    ELSE 0

\* the body of module.items.forEach for one module item
MergeItem(content, item, moduleTitle) ==
    LET e == FindByTitle(content, item.title)
    IN  IF e = 0 THEN content
        ELSE [content EXCEPT
                ![e].inModule = TRUE,
                ![e].moduleTitle = moduleTitle,
                ![e].indent = item.indent,
                ![e].identifier = IF Falsy(item.identifier) THEN @ ELSE item.identifier,
                ![e].identifierref = IF Falsy(item.identifierref) THEN @ ELSE item.identifierref,
                ![e].contentType = item.contentType]

RECURSIVE MergeItems(_, _, _, _)
MergeItems(content, its, n, moduleTitle) ==
    IF n > Len(its) THEN content
    ELSE MergeItems(MergeItem(content, its[n], moduleTitle), its, n + 1, moduleTitle)

RECURSIVE MergeModules(_, _, _)
\* courseStructure.forEach(module => module.items.forEach(...)) from module k on
MergeModules(content, structure, k) ==
    IF k > Len(structure) THEN content
    ELSE MergeModules(MergeItems(content, structure[k].items, 1, structure[k].title),
                      structure, k + 1)

(***************************************************************************)
(* extractArchive                                                          *)
(*   an archive is [zipOk, entries]; an entry is [name, dir, content]      *)
(***************************************************************************)

\* zipFiles: the entries that are read as text
zipFiles(archive) ==
    SelectSeq(archive.entries, LAMBDA f : ~f.dir /\ ~StartsWith(f.name, WebResourcesPrefix))

\* fileContents after the first k entries of zipFiles were read
ReadEntries(archive, k) ==
    LET files == zipFiles(archive)
    IN  [i \in 1..k |-> [name |-> files[i].name, content |-> files[i].content]]

\* 30 + 60 * (fileCount / totalFiles), rounded down
ReadProgress(fileCount, totalFiles) == (30 * totalFiles + 60 * fileCount) \div totalFiles

(***************************************************************************)
(* analyzeContent / runAndDisplayAccessibilityChecks                       *)
(***************************************************************************)

\* The item is handed to axe.run: its file is in fileContents and the body the
\* analysis type selects (html body, <description>, <text>) holds elements.
Audited(fc, a) == Truthy(fc, a.item.href) /\ Get(fc, a.item.href).body = "elements"

\* index of the first item from j on that is handed to axe.run; Len + 1 if none
RECURSIVE NextAudit(_, _, _)
NextAudit(fc, items, j) ==
    IF j > Len(items) \/ Audited(fc, items[j]) THEN j ELSE NextAudit(fc, items, j + 1)

\* getItemTypeDetails(type).label
TypeLabel(type) ==
    CASE type = <<"contextmodulesubheader">> -> "Header"
      [] type = <<"assignment">> -> "Assignment"
      [] type = <<"page">> -> "Page"
      [] type = <<"externalurl">> -> "Link"
      [] type = <<"survey">> -> "Survey"
      [] type = <<"quiz">> -> "Quiz"
      [] type = <<"announcement">> -> "Announcement"
      [] type = <<"discussion">> -> "Discussion"
      [] type = <<"header">> -> "Header"
      [] OTHER -> "File"

\* addMetadata(issue)
addMetadata(issue, item) ==
    [rule |-> issue,
     itemTitle |-> item.title,
     itemType |-> TypeLabel(item.clarifiedType),
     status |-> item.status,
     moduleTitle |-> item.moduleTitle,
     rid |-> item.rid]


(***************************************************************************)
(* displayCourseStructure / displayCourseContent                           *)
(***************************************************************************)

\* Number.isFinite(rawIndent) ? Math.max(0, Math.floor(rawIndent)) : 0
IndentLevel(rawIndent) ==
    IF rawIndent.nan THEN 0 ELSE IF rawIndent.n < 0 THEN 0 ELSE rawIndent.n

\* String.prototype.toLowerCase on the content types of module_meta.xml
ToLowerCase(s) ==
    CASE s = <<"ContextModuleSubHeader">> -> <<"contextmodulesubheader">>
      [] s = <<"WikiPage">> -> <<"wikipage">>
      [] s = <<"Assignment">> -> <<"assignment">>
      [] s = <<"N", "/", "A">> -> <<"n", "/", "a">>
      [] OTHER -> s

\* One <li> of the structure view: the padding is indentLevel * 1.5 rem, the
\* type label comes from the first content item with the same title, or from
\* the module item's content type when there is none.
StructureRow(item, content) ==
    [title |-> item.title,
     indentLevel |-> IndentLevel(item.indent),
     label |-> TypeLabel(IF FindByTitle(content, item.title) = 0
                         THEN ToLowerCase(item.contentType)
                         ELSE Or(content[FindByTitle(content, item.title)].clarifiedType,
                                 Unspecified)),
     status |-> StatusOf(item.status)]

\* displayCourseStructure(modules): one accordion per module, one row per
\* module item, both in list order.
displayCourseStructure(modules, content) ==
    [k \in 1..Len(modules) |->
        [title |-> modules[k].title,
         status |-> StatusOf(modules[k].status),
         rows |-> [n \in 1..Len(modules[k].items) |-> StructureRow(modules[k].items[n], content)]]]

\* the type labels of the content items, in order of first occurrence
RECURSIVE GroupLabels(_, _, _)
GroupLabels(content, i, acc) ==
    IF i > Len(content) THEN acc
    ELSE GroupLabels(content, i + 1,
            IF \E n \in 1..Len(acc) : acc[n] = TypeLabel(content[i].clarifiedType) THEN acc
            ELSE Append(acc, TypeLabel(content[i].clarifiedType)))

\* displayCourseContent(contentItems): one accordion per type label, in order
\* of first occurrence, headed "label (count)".  A group's rows are a copy of
\* its items sorted by title; the view keeps their titles as a set.
displayCourseContent(content) ==
    [g \in 1..Len(GroupLabels(content, 1, <<>>)) |->
        [label |-> GroupLabels(content, 1, <<>>)[g],
         count |-> Cardinality({i \in 1..Len(content) :
                      TypeLabel(content[i].clarifiedType) = GroupLabels(content, 1, <<>>)[g]}),
         titles |-> {content[i].title : i \in {j \in 1..Len(content) :
                      TypeLabel(content[j].clarifiedType) = GroupLabels(content, 1, <<>>)[g]}}]]


(***************************************************************************)
(* The page session                                                        *)
(***************************************************************************)

VARIABLES
    courseStructure,    \* const courseStructure = []: modules, page-global
    allCourseContent,   \* const allCourseContent = []: items, page-global
    accessibilityData,  \* let accessibilityData: the stored audit results
    ui,                 \* visibility of the sections, the progress bar and the
                        \* structure and content views
    runs                \* the async closures started by handleFile, in start order

vars == <<courseStructure, allCourseContent, accessibilityData, ui, runs>>

NoResults == [violations |-> <<>>, passes |-> <<>>, incomplete |-> <<>>, inapplicable |-> <<>>]

(***************************************************************************)
(* Accessibility tab.  ui.controls is the state of the checkboxes below     *)
(* #accessibility-controls: the checked result categories, the item types   *)
(* that have a checkbox and the checked ones, the checked statuses, and the *)
(* two location checkboxes; ui.results is the list of issues rendered into  *)
(* #accessibility-results (grouped by item title on the page).              *)
(***************************************************************************)

\* #accessibility-controls after resetResults: no checkbox at all
NoControls ==
    [built |-> FALSE, categories |-> {}, itemTypeBoxes |-> {}, itemTypes |-> {},
     statuses |-> {}, moduleIn |-> FALSE, moduleOut |-> FALSE]

\* the item types of the violations and passes
AllItemTypes(results) ==
    {results.violations[n].itemType : n \in 1..Len(results.violations)}
        \cup {results.passes[n].itemType : n \in 1..Len(results.passes)}

\* setupAccessibilityTab(results, items): the checkboxes it builds, with their
\* initial state
setupAccessibilityTab(results) ==
    [built |-> TRUE,
     categories |-> {"violations"},
     itemTypeBoxes |-> IF Cardinality(AllItemTypes(results)) > 1 THEN AllItemTypes(results) ELSE {},
     itemTypes |-> IF Cardinality(AllItemTypes(results)) > 1 THEN AllItemTypes(results) ELSE {},
     statuses |-> {Active, Unpublished},
     moduleIn |-> TRUE,
     moduleOut |-> TRUE]

\* selectedResultTypes.forEach(type => filteredResults.push(...accessibilityData[type]))
SelectedResults(data, controls) ==
    (IF "violations" \in controls.categories THEN data.violations ELSE <<>>)
        \o (IF "passes" \in controls.categories THEN data.passes ELSE <<>>)
        \o (IF "incomplete" \in controls.categories THEN data.incomplete ELSE <<>>)

\* A filter that reads the checkbox filter-module-in for both locations.
FilterMatchSameBox(controls, result) ==
    /\ controls.itemTypeBoxes # {} => result.itemType \in controls.itemTypes
    /\ result.status \in controls.statuses
    /\ \/ controls.moduleIn /\ ~Falsy(result.moduleTitle)
       \/ controls.moduleIn /\ Falsy(result.moduleTitle)

\* the callback of filteredResults.filter in renderAccessibilityResults
FilterMatch(controls, result) ==
    /\ controls.itemTypeBoxes # {} => result.itemType \in controls.itemTypes
    /\ result.status \in controls.statuses
    /\ \/ controls.moduleIn /\ ~Falsy(result.moduleTitle)
       \/ controls.moduleOut /\ Falsy(result.moduleTitle)

\* renderAccessibilityResults: the issues it renders
filteredResults(data, controls) ==
    SelectSeq(SelectedResults(data, controls), LAMBDA result : FilterMatch(controls, result))

\* the checkboxes the user toggles: the two below "Filter by Location"; the
\* others stay as setupAccessibilityTab built them
Checkboxes == {"filter-module-in", "filter-module-out"}

\* the state of the checkboxes after a click on one of them
Toggled(controls, box) ==
    CASE box = "filter-module-in" -> [controls EXCEPT !.moduleIn = ~@]
      [] box = "filter-module-out" -> [controls EXCEPT !.moduleOut = ~@]

\* A run is the async closure of one handleFile call:
\*   archive   the file it was given
\*   pc        "unzip": awaiting JSZip.loadAsync; "read": awaiting
\*             zipEntry.async for entry k + 1; "audit": awaiting axe.run for
\*             analysis item j; "done": returned; "failed": left through catch
\*   k         entries read into fileContents so far
\*   analysis  contentItemsForAnalysis
\*   j         analysis item under audit
\*   allResults  the results gathered by runAndDisplayAccessibilityChecks
\*   outcomes  how axe.run settled for each item it was handed (history)
\*   error     what was thrown, "none" if nothing
\*   stages    the stages the run has entered, in order (history)
\*   trace     the outcome of every iteration of its resource loop (history)
\*   base      lengths of allCourseContent and courseStructure when its
\*             processAndAnalyze started, and what it had pushed to them when
\*             it returned or threw (history)
NewRun(archive) ==
    [archive |-> archive, pc |-> "unzip", k |-> 0, analysis |-> <<>>, j |-> 0,
     allResults |-> NoResults, outcomes |-> <<>>, error |-> "none", stages |-> <<>>,
     trace |-> <<>>,
     base |-> [content |-> 0, structure |-> 0, items |-> 0, modules |-> 0]]

\* the fileContents object of a run
fileContents(run) == ReadEntries(run.archive, run.k)

Init ==
    /\ courseStructure = <<>>
    /\ allCourseContent = <<>>
    /\ accessibilityData = NoResults
    /\ ui = [uploadHidden |-> FALSE, loadingHidden |-> TRUE, resultsHidden |-> TRUE,
             progress |-> 0, error |-> FALSE, structure |-> <<>>, content |-> <<>>,
             controls |-> NoControls, results |-> <<>>]
    /\ runs = <<>>

\* processAndAnalyze without its manifest test.
ManifestMissingNever(fc) == FALSE

\* if (!manifestContent)
ManifestMissing(fc) == ~Truthy(fc, ManifestName)

\* processAndAnalyze after the resource loop: cl is what the loop left,
\* structure1 is courseStructure with the modules of this run.
MergeAndDisplay(structure1, cl) ==
    IF cl.threw
    THEN [error |-> "type", structure |-> structure1, content |-> cl.content,
          analysis |-> cl.analysis, stages |-> <<"modules", "classify">>,
          trace |-> cl.trace]
    ELSE [error |-> "none", structure |-> structure1,
          content |-> MergeModules(cl.content, structure1, 1),
          analysis |-> cl.analysis,
          stages |-> <<"modules", "classify", "merge", "display", "extract">>,
          trace |-> cl.trace]

\* processAndAnalyze from the resource loop on, mods being the modules built
\* from the parsed manifest.
ClassifyAndMerge(fc, structure, content, manifest, mods) ==
    MergeAndDisplay(structure \o mods,
                    ClassifyAll(1, [content |-> content, analysis |-> <<>>, threw |-> FALSE,
                                    trace |-> <<>>],
                                fc, resourceMap(manifest), mods, manifest.items, itemMetaMap(fc)))

\* The synchronous part of processAndAnalyze on fileContents fc, given the
\* page-global lists: what it leaves in them, the analysis list, and whether
\* it threw ("manifest": imsmanifest.xml missing; "type": a TypeError inside
\* the resource loop).  trace is the history of the resource loop.
processAndAnalyze(fc, structure, content) ==
    IF ManifestMissing(fc)
    THEN [error |-> "manifest", structure |-> structure, content |-> content,
          analysis |-> <<>>, stages |-> <<>>, trace |-> <<>>]
    ELSE ClassifyAndMerge(fc, structure, content, Get(fc, ManifestName), BuildModules(fc))

\* The end of runAndDisplayAccessibilityChecks and of everything that returns
\* after it: the results are stored, the accessibility tab is set up, progress
\* is 100 and the results section is revealed.
Complete(r, allResults, outcomes) ==
    /\ accessibilityData' = allResults
    /\ ui' = [ui EXCEPT !.progress = 100, !.loadingHidden = TRUE, !.resultsHidden = FALSE,
                        !.controls = setupAccessibilityTab(allResults),
                        !.results = filteredResults(allResults, setupAccessibilityTab(allResults))]
    /\ runs' = [runs EXCEPT ![r].pc = "done", ![r].allResults = allResults,
                            ![r].outcomes = outcomes,
                            ![r].stages = @ \o <<"complete">>]

\* What processAndAnalyze (result pa) pushed to the page-global lists, and
\* their lengths when it started (history).
Base(pa) ==
    [content |-> Len(allCourseContent), structure |-> Len(courseStructure),
     items |-> Len(pa.content) - Len(allCourseContent),
     modules |-> Len(pa.structure) - Len(courseStructure)]

\* processAndAnalyze (result pa) has run up to its first await: j is the first
\* analysis item handed to axe.run, if any.
Analyzed(r, run, pa, j) ==
    /\ courseStructure' = pa.structure
    /\ allCourseContent' = pa.content
    /\ IF pa.error # "none"
       THEN /\ runs' = [runs EXCEPT ![r] = [run EXCEPT !.pc = "failed", !.error = pa.error,
                                                       !.stages = pa.stages, !.base = Base(pa),
                                                       !.trace = pa.trace]]
            /\ ui' = [ui EXCEPT !.progress = 90]
            /\ UNCHANGED accessibilityData
       ELSE IF j <= Len(pa.analysis)
       THEN /\ runs' = [runs EXCEPT ![r] = [run EXCEPT !.pc = "audit", !.analysis = pa.analysis,
                                                       !.j = j, !.base = Base(pa), !.trace = pa.trace,
                                                       !.stages = pa.stages \o <<"audit">>]]
            /\ ui' = [ui EXCEPT !.progress = 95,
                                !.structure = displayCourseStructure(pa.structure, pa.content),
                                !.content = displayCourseContent(pa.content)]
            /\ UNCHANGED accessibilityData
       ELSE /\ accessibilityData' = NoResults
            /\ ui' = [ui EXCEPT !.progress = 100, !.loadingHidden = TRUE, !.resultsHidden = FALSE,
                                !.structure = displayCourseStructure(pa.structure, pa.content),
                                !.content = displayCourseContent(pa.content),
                                !.controls = setupAccessibilityTab(NoResults),
                                !.results = filteredResults(NoResults, setupAccessibilityTab(NoResults))]
            /\ runs' = [runs EXCEPT ![r] = [run EXCEPT !.pc = "done", !.analysis = pa.analysis,
                                                       !.j = j, !.base = Base(pa), !.trace = pa.trace,
                                                       !.stages = pa.stages \o <<"audit", "complete">>]]

\* Processed without the await of analyzeContent: the run completes with no
\* item handed to axe.run.
ProcessedNoAudit(r, run, fc, pa) == Analyzed(r, run, pa, Len(pa.analysis) + 1)

\* processAndAnalyze (result pa) of run r on fileContents fc, followed by
\* analyzeContent up to its first await.
Processed(r, run, fc, pa) == Analyzed(r, run, pa, NextAudit(fc, pa.analysis, 1))

\* Run r has read its last entry: processAndAnalyze runs on the page-global
\* lists up to the first axe.run it awaits (or to its end).
Process(r, k) ==
    Processed(r, [runs[r] EXCEPT !.k = k],
              ReadEntries(runs[r].archive, k),
              processAndAnalyze(ReadEntries(runs[r].archive, k), courseStructure, allCourseContent))


\* axe.run resolves with these results (rule identifiers per category) ...
AxeResults ==
    {NoResults,
     [violations |-> <<"image-alt">>, passes |-> <<"html-has-lang">>,
      incomplete |-> <<>>, inapplicable |-> <<"video-caption">>]}

\* ... or rejects.
AxeOutcomes ==
    {[throws |-> FALSE, results |-> x] : x \in AxeResults}
        \cup {[throws |-> TRUE, results |-> NoResults]}

\* results.<category>.map(addMetadata) pushed to allResults.<category>
Tagged(issues, item) == [n \in 1..Len(issues) |-> addMetadata(issues[n], item)]

\* A catch that starts the results over.
GatheredResetOnThrow(allResults, outcome, item) ==
    IF outcome.throws THEN NoResults
    ELSE [c \in DOMAIN NoResults |-> allResults[c] \o Tagged(outcome.results[c], item)]

\* allResults after axe.run settled for item: its issues are tagged and pushed,
\* or the rejection is caught and logged.
Gathered(allResults, outcome, item) ==
    IF outcome.throws THEN allResults
    ELSE [c \in DOMAIN NoResults |-> allResults[c] \o Tagged(outcome.results[c], item)]

\* handleFile(file): the sections are switched, the result panes reset, and the
\* async closure runs into extractArchive up to its first await.
handleFile(archive) ==
    /\ runs' = Append(runs, NewRun(archive))
    /\ ui' = [ui EXCEPT !.uploadHidden = TRUE, !.loadingHidden = FALSE,
                        !.resultsHidden = TRUE, !.progress = 10,
                        !.structure = <<>>, !.content = <<>>,
                        !.controls = NoControls, !.results = <<>>]
    /\ UNCHANGED <<courseStructure, allCourseContent, accessibilityData>>

\* JSZip.loadAsync rejects: extractArchive shows the error and rethrows, and
\* the catch of handleFile logs it.
ZipFailed(r) ==
    /\ runs[r].pc = "unzip"
    /\ ~runs[r].archive.zipOk
    /\ runs' = [runs EXCEPT ![r].pc = "failed", ![r].error = "zip"]
    /\ ui' = [ui EXCEPT !.error = TRUE]
    /\ UNCHANGED <<courseStructure, allCourseContent, accessibilityData>>

\* JSZip.loadAsync resolves: the entries to read are selected; with none to
\* read extractArchive returns at once and processAndAnalyze runs.
ZipLoaded(r) ==
    /\ runs[r].pc = "unzip"
    /\ runs[r].archive.zipOk
    /\ IF zipFiles(runs[r].archive) = <<>>
       THEN Process(r, 0)
       ELSE /\ runs' = [runs EXCEPT ![r].pc = "read"]
            /\ ui' = [ui EXCEPT !.progress = 30]
            /\ UNCHANGED <<courseStructure, allCourseContent, accessibilityData>>

\* zipEntry.async('string') resolves for entry k + 1; after the last entry
\* extractArchive returns and processAndAnalyze runs.
ReadEntry(r) ==
    /\ runs[r].pc = "read"
    /\ LET total == Len(zipFiles(runs[r].archive))
           k == runs[r].k + 1
       IN  IF k = total
           THEN Process(r, k)
           ELSE /\ runs' = [runs EXCEPT ![r].k = k]
                /\ ui' = [ui EXCEPT !.progress = ReadProgress(k, total)]
                /\ UNCHANGED <<courseStructure, allCourseContent, accessibilityData>>

\* axe.run settles for analysis item j of run r: its issues are tagged and
\* gathered, or the rejection is caught and logged; the loop goes on to the
\* next item handed to axe.run, or the run completes.
AxeDone(r, outcome) ==
    /\ runs[r].pc = "audit"
    /\ LET run == runs[r]
           allResults == Gathered(run.allResults, outcome, run.analysis[run.j].item)
           outcomes == Append(run.outcomes, [j |-> run.j, outcome |-> outcome])
           j == NextAudit(fileContents(run), run.analysis, run.j + 1)
       IN  IF j <= Len(run.analysis)
           THEN /\ runs' = [runs EXCEPT ![r].j = j, ![r].allResults = allResults,
                                        ![r].outcomes = outcomes]
                /\ UNCHANGED <<courseStructure, allCourseContent, accessibilityData, ui>>
           ELSE /\ Complete(r, allResults, outcomes)
                /\ UNCHANGED <<courseStructure, allCourseContent>>


\* the change event of a checkbox of the accessibility tab: the user toggled
\* it, renderAccessibilityResults renders the stored results again
ChangeFilter(box) ==
    /\ ui.controls.built
    /\ ui' = [ui EXCEPT !.controls = Toggled(ui.controls, box),
                        !.results = filteredResults(accessibilityData, Toggled(ui.controls, box))]
    /\ UNCHANGED <<courseStructure, allCourseContent, accessibilityData, runs>>


(***************************************************************************)
(* The draft src/js/main.js.  Its handleFile and extractArchive are those   *)
(* modelled above, statement for statement.  Its processAndAnalyze keeps    *)
(* the page-global lists allResources (allCourseContent here) and           *)
(* allModules (courseStructure here), requires                              *)
(* course_settings/module_meta.xml, and awaits nothing.                     *)
(***************************************************************************)

Tbd == <<"tbd">>
Unknown == <<"unknown">>

\* findManifestResourceElementByIentifier(id): index of the first <resource>
\* whose identifierRef attribute is id, 0 = null
findManifestResourceElementByIentifier(resources, id) ==
    IF Falsy(id) \/ ~\E i \in 1..Len(resources) : resources[i].identifierRef = id THEN 0
    ELSE CHOOSE i \in 1..Len(resources) :
            /\ resources[i].identifierRef = id
            /\ \A j \in 1..(i - 1) : resources[j].identifierRef # id

\* manifestResourceElement.querySelector('dependency')?.getAttribute("identifierRef")
DraftDependency(res) == IF res.dependencyRefs = <<>> THEN Null ELSE res.dependencyRefs[1]

\* matchingManifestResourceElement && fileContents[its href]
DraftCompanionFound(fc, resources, res) ==
    /\ findManifestResourceElementByIentifier(resources, DraftDependency(res)) # 0
    /\ Truthy(fc, resources[findManifestResourceElementByIentifier(resources, DraftDependency(res))].href)

\* the href of that element
DraftCompanionHref(resources, res) ==
    resources[findManifestResourceElementByIentifier(resources, DraftDependency(res))].href

\* One iteration of the resource loop of the draft on a <resource> with a type
\* attribute: the record it pushes to allResources.
DraftResource(fc, resources, res) ==
    LET id == res.identifier
        type == res.type
        href == res.href
        new == [identifier |-> id, title |-> <<"untitled">>, identifierref |-> Null,
                status |-> Unknown, clarifiedType |-> Tbd, contentType |-> type,
                analysisHref |-> Null, analysisType |-> "html"]
        assignmentRule == /\ Includes(type, LarMarker)
                    /\ ~Falsy(href) /\ EndsWith(href, Html)
                    /\ ~StartsWith(href, CourseSettingsPrefix)
        quizRule == Includes(type, QtiMarker)
        discussionRule == Includes(type, DiscussionMarker)
        pageRule == type = WebContent /\ ~Falsy(href) /\ StartsWith(href, WikiPrefix)
        fileRule == type = WebContent /\ ~Falsy(href) /\ StartsWith(href, WebResourcesPrefix)
        linkRule == Includes(type, LinkMarker)
        settingsPath == FindKey(fc, id \o Slash, AssignmentSettingsXml)
        htmlPath == FindKey(fc, id \o Slash, DotHtml)
        discussionXmlPath == id \o DotXml
    IN  IF linkRule THEN [new EXCEPT !.clarifiedType = <<"link">>]
        ELSE IF fileRule THEN [new EXCEPT !.clarifiedType = <<"file">>]
        ELSE IF pageRule
        THEN [new EXCEPT !.clarifiedType = <<"page">>,
                         !.title = IF Truthy(fc, href) THEN Or(Get(fc, href).title, @) ELSE @,
                         !.status = IF Truthy(fc, href) THEN StatusOf(Get(fc, href).meta) ELSE @,
                         !.analysisHref = href]
        ELSE IF assignmentRule
        THEN [new EXCEPT !.clarifiedType = <<"assignment">>,
                         !.status = IF settingsPath # Null
                                    THEN StatusOf(Get(fc, settingsPath).workflow_state) ELSE @,
                         !.title = IF settingsPath # Null
                                   THEN Or(Get(fc, settingsPath).title, @) ELSE @,
                         !.analysisHref = IF htmlPath # Null THEN htmlPath ELSE @]
        ELSE IF quizRule
        THEN IF DraftCompanionFound(fc, resources, res)
             THEN [new EXCEPT !.analysisHref = DraftCompanionHref(resources, res),
                              !.analysisType = "xml",
                              !.title = Or(Get(fc, DraftCompanionHref(resources, res)).title, @),
                              !.status = IF Get(fc, DraftCompanionHref(resources, res)).available
                                               = <<"true">>
                                         THEN Active ELSE Unpublished,
                              !.clarifiedType =
                                  IF Get(fc, DraftCompanionHref(resources, res)).quiz_type
                                        = <<"survey">>
                                  THEN <<"survey">> ELSE <<"quiz">>]
             ELSE new
        ELSE IF discussionRule
        THEN IF Truthy(fc, discussionXmlPath)
             THEN [new EXCEPT !.clarifiedType =
                                  IF /\ DraftCompanionFound(fc, resources, res)
                                     /\ Get(fc, DraftCompanionHref(resources, res)).type
                                           = <<"announcement">>
                                  THEN <<"announcement">> ELSE <<"discussion">>,
                              !.analysisHref = discussionXmlPath,
                              !.analysisType = "discussion_xml",
                              !.title = Or(Get(fc, discussionXmlPath).title, @),
                              !.status =
                                  IF DraftCompanionFound(fc, resources, res)
                                  THEN StatusOf(Get(fc, DraftCompanionHref(resources, res)).workflow_state)
                                  ELSE @]
             ELSE [new EXCEPT !.clarifiedType = <<"discussion">>]
        ELSE new

RECURSIVE DraftGather(_, _, _, _)
\* The resource loop of the draft from <resource> i on: content is
\* allResources so far; resourceType.includes(...) throws a TypeError on a
\* <resource> without a type attribute.
DraftGather(fc, resources, i, content) ==
    IF i > Len(resources) THEN [content |-> content, threw |-> FALSE]
    ELSE IF resources[i].type = Null THEN [content |-> content, threw |-> TRUE]
    ELSE DraftGather(fc, resources, i + 1,
                     Append(content, DraftResource(fc, resources, resources[i])))

\* a module item of the draft; the <identifierref> element is looked up among
\* the resources gathered so far (a missing element never equals an identifier)
DraftModuleItem(content, moduleTitle, mItem) ==
    LET ref == mItem.identifierref
        hits == {n \in 1..Len(content) : ref # Null /\ content[n].identifier = ref}
        found == IF hits = {} THEN Null
                 ELSE content[CHOOSE n \in hits : \A j \in hits : n <= j].clarifiedType
    IN  [identifier |-> mItem.identifier,
         title |-> mItem.title,
         identifierRef |-> ref,
         moduleTitle |-> moduleTitle,
         status |-> Or(mItem.workflow_state, Unknown),
         indent |-> ParseInt(Or(mItem.indent, <<"0">>)),
         clarifiedType |-> Or(found, Tbd),
         contentType |-> Or(mItem.content_type, Unknown)]

\* allModules after the <module> elements of module_meta.xml were pushed
DraftModules(mods, content) ==
    [k \in 1..Len(mods) |->
        [title |-> Or(ModuleQuery(mods[k], "title"), UntitledModule),
         items |-> [n \in 1..Len(mods[k].items) |->
                      DraftModuleItem(content, Or(ModuleQuery(mods[k], "title"), UntitledModule),
                                      mods[k].items[n])],
         status |-> StatusOf(ModuleQuery(mods[k], "workflow_state"))]]

\* processAndAnalyze of the draft after the resource loop left allResources
\* as content.  module_meta.xml is looked for only now.  displayModules and
\* displayCourseContent read the constant DEFAULT_BADGES, which is declared
\* further down in the function body and not yet initialised when they are
\* called: with a module, or an item, to render they throw a ReferenceError.
DraftAfterGather(fc, structure, content) ==
    IF ~Truthy(fc, ModuleMetaName)
    THEN [error |-> "module_meta", structure |-> structure, content |-> content]
    ELSE [error |-> IF structure \o DraftModules(Get(fc, ModuleMetaName).modules, content) # <<>>
                       \/ content # <<>>
                    THEN "reference" ELSE "none",
          structure |-> structure \o DraftModules(Get(fc, ModuleMetaName).modules, content),
          content |-> content]

\* processAndAnalyze of the draft on fileContents fc, given the page-global
\* lists: what it leaves in them and what it threw.
DraftProcessAndAnalyze(fc, structure, content) ==
    IF ManifestMissing(fc)
    THEN [error |-> "manifest", structure |-> structure, content |-> content]
    ELSE IF DraftGather(fc, Get(fc, ManifestName).resources, 1, content).threw
    THEN [error |-> "type", structure |-> structure,
          content |-> DraftGather(fc, Get(fc, ManifestName).resources, 1, content).content]
    ELSE DraftAfterGather(fc, structure,
                          DraftGather(fc, Get(fc, ManifestName).resources, 1, content).content)

\* processAndAnalyze (result pa) of the draft for run r.  When nothing is
\* thrown, analyzeContent is called with no item and not awaited: it stores
\* undefined as accessibilityData and fails inside setupAccessibilityTab after
\* clearing the controls; processAndAnalyze goes on and reveals the results.
DraftProcessed(r, run, pa) ==
    /\ courseStructure' = pa.structure
    /\ allCourseContent' = pa.content
    /\ IF pa.error # "none"
       THEN /\ runs' = [runs EXCEPT ![r] = [run EXCEPT !.pc = "failed", !.error = pa.error,
                                                       !.base = Base(pa)]]
            /\ ui' = [ui EXCEPT !.progress = 90,
                                !.structure = IF pa.error = "reference" THEN <<>> ELSE @,
                                !.content = IF pa.error = "reference" /\ pa.structure = <<>>
                                            THEN <<>> ELSE @]
            /\ UNCHANGED accessibilityData
       ELSE /\ runs' = [runs EXCEPT ![r] = [run EXCEPT !.pc = "done", !.base = Base(pa)]]
            /\ accessibilityData' = Null
            /\ ui' = [ui EXCEPT !.progress = 100, !.loadingHidden = TRUE, !.resultsHidden = FALSE,
                                !.structure = <<>>, !.content = <<>>, !.controls = NoControls]

\* Run r of the draft has read its last entry.
DraftProcess(r, k) ==
    DraftProcessed(r, [runs[r] EXCEPT !.k = k],
                   DraftProcessAndAnalyze(ReadEntries(runs[r].archive, k),
                                          courseStructure, allCourseContent))

\* JSZip.loadAsync resolves in the draft.
DraftZipLoaded(r) ==
    /\ runs[r].pc = "unzip"
    /\ runs[r].archive.zipOk
    /\ IF zipFiles(runs[r].archive) = <<>>
       THEN DraftProcess(r, 0)
       ELSE /\ runs' = [runs EXCEPT ![r].pc = "read"]
            /\ ui' = [ui EXCEPT !.progress = 30]
            /\ UNCHANGED <<courseStructure, allCourseContent, accessibilityData>>

\* zipEntry.async('string') resolves for entry k + 1 in the draft.
DraftReadEntry(r) ==
    /\ runs[r].pc = "read"
    /\ LET total == Len(zipFiles(runs[r].archive))
           k == runs[r].k + 1
       IN  IF k = total
           THEN DraftProcess(r, k)
           ELSE /\ runs' = [runs EXCEPT ![r].k = k]
                /\ ui' = [ui EXCEPT !.progress = ReadProgress(k, total)]
                /\ UNCHANGED <<courseStructure, allCourseContent, accessibilityData>>


(***************************************************************************)
(* Input archives                                                          *)
(***************************************************************************)

R1 == <<"r1">>
R2 == <<"r2">>
D1 == <<"d1">>
DX == <<"dx">>
I1 == <<"i1">>
I2 == <<"i2">>
M1 == <<"m1">>
Root == <<"LearningModules">>

PageHref == <<"wiki_content", "/", "p", ".", "html">>
Page2Href == <<"wiki_content", "/", "q", ".", "html">>
FileHref == <<"web_resources", "/", "f", ".", "pdf">>
AssignHref == <<"r1", "/", "foo", ".", "html">>
SyllabusHref == <<"course_settings", "/", "syllabus", ".", "html">>
AssignSettingsPath == <<"r1", "/", "assignment_settings", ".", "xml">>
DecoySettingsPath == <<"r2", "/", "assignment_settings", ".", "xml">>
DecoyHtmlPath == <<"r2", "/", "bar", ".", "html">>
SecondHtmlPath == <<"r1", "/", "zed", ".", "html">>
MetaHref == <<"d1", "/", "assessment_meta", ".", "xml">>
D1Xml == <<"d1", ".", "xml">>
R1Xml == <<"r1", ".", "xml">>

\* a <resource> (it has no identifierRef attribute of its own);
\* dependencies[i] is the identifierref attribute of its i-th <dependency>,
\* dependencyRefs[i] that element's identifierRef attribute
Resource(id, type, href, deps) ==
    [identifier |-> id, identifierRef |-> Null, type |-> type, href |-> href,
     dependencies |-> deps, dependencyRefs |-> [i \in 1..Len(deps) |-> Null]]

\* the same <resource> with its references written identifierRef="..."
ResourceCamel(id, type, href, deps) ==
    [identifier |-> id, identifierRef |-> Null, type |-> type, href |-> href,
     dependencies |-> [i \in 1..Len(deps) |-> Null], dependencyRefs |-> deps]

OrgItem(id, ref, title, parent) ==
    [identifier |-> id, identifierref |-> ref, identifierRef |-> Null,
     title |-> title, parent |-> parent]

\* the same <item> with its reference written identifierRef="..."
OrgItemCamel(id, ref, title, parent) ==
    [identifier |-> id, identifierref |-> Null, identifierRef |-> ref,
     title |-> title, parent |-> parent]

\* an <item> of module_meta.xml (without an <identifierref> child element)
MetaItem(id, title, ws, indent, ct) ==
    [identifier |-> id, title |-> title, workflow_state |-> ws, indent |-> indent,
     content_type |-> ct, identifierref |-> Null]

MetaModule(id, title, ws, its) ==
    [identifier |-> id, title |-> title, workflow_state |-> ws, items |-> its]

File(name, content) == [name |-> name, dir |-> FALSE, content |-> content]

Manifest(resources, items) ==
    File(ManifestName, [BaseDoc EXCEPT !.resources = resources, !.items = items])

ModuleMeta(modules) == File(ModuleMetaName, [BaseDoc EXCEPT !.modules = modules])

Archive(entries) == [zipOk |-> TRUE, entries |-> entries]

\* documents
PageDoc(title, meta) == [BaseDoc EXCEPT !.title = title, !.meta = meta, !.body = "elements"]

SettingsDoc(title, ws) == [BaseDoc EXCEPT !.title = title, !.workflow_state = ws]

\* a companion document: quiz meta and topic settings read different elements
\* of it
CompanionDoc(title, available, quizType, ws, type) ==
    [BaseDoc EXCEPT !.title = title, !.available = available, !.quiz_type = quizType,
                    !.workflow_state = ws, !.type = type, !.body = "elements"]

TopicDoc(title) == [BaseDoc EXCEPT !.title = title, !.body = "elements"]

\* the module structure of a Canvas export around one content item i1 -> r1:
\* <item LearningModules><item m1><title>Week 1</title><item i1 ref r1>
CanvasItems(itemTitle) ==
    <<OrgItem(Root, Null, Null, 0),
      OrgItem(M1, Null, <<"Week 1">>, 1),
      OrgItem(I1, R1, itemTitle, 2)>>

CanvasMeta(ws, indent, ct) ==
    ModuleMeta(<<MetaModule(M1, <<"Week 1">>, Active,
                            <<MetaItem(I1, <<"Item 1">>, ws, indent, ct)>>)>>)

\* the module context of r1: no module data at all, or the Canvas structure
\* with a module_meta.xml entry for i1
Contexts ==
    {[items |-> <<>>, meta |-> <<>>],
     [items |-> CanvasItems(<<"Item 1">>), meta |-> <<CanvasMeta(Active, <<"1">>, <<"WikiPage">>)>>],
     [items |-> CanvasItems(<<"Item 1">>), meta |-> <<CanvasMeta(Unpublished, Null, SubHeader)>>]}


\* the companion resource d1 (a quiz's assessment meta, a topic's settings)
Companion(href) == Resource(D1, LarMarker, href, <<>>)

\* Types and hrefs of a <resource>: each marker alone, two markers in one
\* type, no marker, an empty and a missing attribute.
Types ==
    {LinkMarker, WebContent, LarMarker, QtiMarker, DiscussionMarker,
     LinkMarker \o Slash \o DiscussionMarker,
     QtiMarker \o Slash \o DiscussionMarker,
     LarMarker \o Slash \o QtiMarker,
     <<"imsbasiclti_xmlv1p0">>, <<>>, Null}

Hrefs == {PageHref, FileHref, AssignHref, SyllabusHref, Null}

\* every file a rule could open for r1, all present
AllFiles ==
    <<File(PageHref, PageDoc(<<"Page One">>, Active)),
      File(Page2Href, PageDoc(<<"Page Two">>, Null)),
      File(AssignSettingsPath, SettingsDoc(<<"HW1">>, Active)),
      File(AssignHref, PageDoc(Null, Null)),
      File(D1Xml, CompanionDoc(<<"Quiz One">>, <<"true">>, <<"survey">>, Active, <<"announcement">>)),
      File(R1Xml, TopicDoc(<<"Topic One">>))>>

\* r1 of every type and href in every module context, with all files present,
\* followed by the companion d1 and a page r2
OverlapArchives ==
    {Archive(<<Manifest(<<Resource(R1, t, h, <<D1>>), Companion(D1Xml),
                          Resource(R2, WebContent, Page2Href, <<>>)>>, c.items)>>
             \o c.meta \o AllFiles) :
        t \in Types, h \in Hrefs, c \in Contexts}

PageFiles ==
    {<<>>,
     <<File(PageHref, EmptyText)>>,
     <<File(PageHref, PageDoc(<<"Page One">>, Active))>>,
     <<File(PageHref, PageDoc(<<"Page One">>, Unpublished))>>,
     <<File(PageHref, PageDoc(<<>>, <<"deleted">>))>>,
     <<File(PageHref, PageDoc(Null, Null))>>}

PageArchives ==
    {Archive(<<Manifest(<<Resource(R1, WebContent, PageHref, <<>>)>>, c.items)>> \o c.meta \o f) :
        f \in PageFiles, c \in Contexts}

AssignmentSettings ==
    {<<>>,
     <<File(AssignSettingsPath, SettingsDoc(<<"HW1">>, Active))>>,
     <<File(DecoySettingsPath, SettingsDoc(<<"Other">>, Unpublished)),
       File(AssignSettingsPath, SettingsDoc(<<"HW1">>, Active))>>,
     <<File(DecoySettingsPath, SettingsDoc(<<"Other">>, Active))>>,
     <<File(AssignSettingsPath, SettingsDoc(Null, Unpublished))>>,
     <<File(AssignSettingsPath, SettingsDoc(<<"HW1">>, Null))>>,
     <<File(AssignSettingsPath, EmptyText)>>}

AssignmentHtml ==
    {<<>>,
     <<File(AssignHref, PageDoc(Null, Null))>>,
     <<File(SecondHtmlPath, PageDoc(Null, Null)), File(AssignHref, PageDoc(Null, Null))>>,
     <<File(DecoyHtmlPath, PageDoc(Null, Null)), File(AssignHref, PageDoc(Null, Null))>>,
     <<File(DecoyHtmlPath, PageDoc(Null, Null))>>}

AssignmentContexts ==
    {[items |-> <<>>, meta |-> <<>>],
     [items |-> CanvasItems(<<"Item 1">>), meta |-> <<CanvasMeta(Active, <<"2">>, <<"Assignment">>)>>]}

AssignmentArchives ==
    {Archive(<<Manifest(<<Resource(R1, LarMarker, AssignHref, <<>>)>>, c.items)>>
             \o c.meta \o st \o h) :
        st \in AssignmentSettings, h \in AssignmentHtml, c \in AssignmentContexts}

\* the scenario of the specification: r1, r1/assignment_settings.xml, r1/foo.html
ScenarioArchive ==
    Archive(<<Manifest(<<Resource(R1, LarMarker, AssignHref, <<>>)>>, <<>>),
              File(AssignSettingsPath, SettingsDoc(<<"HW1">>, Active)),
              File(AssignHref, PageDoc(Null, Null))>>)

QuizArchives ==
    {Archive(<<Manifest(<<Resource(R1, t, Null, deps)>> \o comp, <<>>)>> \o f) :
        t \in {QtiMarker, QtiMarker \o Slash \o DiscussionMarker},
        deps \in {<<>>, <<D1>>, <<DX>>},
        comp \in {<<>>, <<Companion(MetaHref)>>, <<Companion(Null)>>},
        f \in {<<>>,
               <<File(MetaHref, EmptyText)>>,
               <<File(MetaHref, CompanionDoc(<<"Quiz One">>, <<"true">>, Null, Null, Null))>>,
               <<File(MetaHref, CompanionDoc(Null, <<"false">>, <<"survey">>, Null, Null))>>}}

DiscussionArchives ==
    {Archive(<<Manifest(<<Resource(R1, DiscussionMarker, Null, deps)>> \o comp, <<>>)>>
             \o body \o f) :
        deps \in {<<>>, <<D1>>},
        comp \in {<<>>, <<Companion(D1Xml)>>, <<Companion(MetaHref)>>},
        body \in {<<>>, <<File(R1Xml, TopicDoc(<<"Topic One">>))>>},
        f \in {<<>>} \cup
              {<<File(n, CompanionDoc(Null, Null, Null, ws, ty))>> :
                  n \in {D1Xml, MetaHref},
                  ws \in {Active},
                  ty \in {<<"announcement">>, <<"topic">>}}
              \cup {<<File(D1Xml, CompanionDoc(Null, Null, Null, Unpublished, <<"announcement">>))>>}}

\* archives that cannot be processed: unreadable, empty, without a manifest,
\* with an empty manifest, with nothing but skipped entries
NoManifestArchive ==
    Archive(<<CanvasMeta(Active, <<"1">>, <<"WikiPage">>),
              File(PageHref, PageDoc(<<"Page One">>, Active))>>)

FailingArchives ==
    {[zipOk |-> FALSE, entries |-> <<>>],
     Archive(<<>>),
     NoManifestArchive,
     Archive(<<File(ManifestName, EmptyText), File(PageHref, PageDoc(<<"Page One">>, Active))>>),
     Archive(<<[name |-> WikiPrefix, dir |-> TRUE, content |-> EmptyText],
               File(FileHref, PageDoc(Null, Null))>>)}


M2 == <<"m2">>

\* <organizations> trees
OrgTrees ==
    {<<OrgItem(M1, Null, <<"Week 1">>, 0)>>,
     CanvasItems(<<"Item 1">>),
     CanvasItems(Null),
     <<OrgItem(M1, Null, <<"Week 1">>, 0), OrgItem(M2, Null, <<"Week 2">>, 0)>>,
     <<OrgItem(M1, Null, <<"Week 1">>, 0), OrgItem(I1, R1, <<"Item 1">>, 1)>>,
     <<OrgItem(Root, Null, Null, 0), OrgItem(M1, Null, Null, 1), OrgItem(I1, R1, <<"Item 1">>, 2)>>,
     <<OrgItem(Root, Null, Null, 0), OrgItem(M1, Null, <<"Week 1">>, 1),
       OrgItem(I1, R1, <<"Item 1">>, 2), OrgItem(I2, R2, Null, 3),
       OrgItem(M2, Null, <<>>, 1)>>}

\* module_meta.xml absent or empty, or present
StructureMeta ==
    {<<>>,
     <<File(ModuleMetaName, EmptyText)>>,
     <<CanvasMeta(Active, <<"1">>, <<"WikiPage">>)>>}

StructureArchives ==
    {Archive(<<Manifest(<<Resource(R1, WebContent, PageHref, <<>>),
                          Resource(R2, WebContent, Page2Href, <<>>)>>, t)>>
             \o m
             \o <<File(PageHref, PageDoc(<<"Page One">>, Active)),
                  File(Page2Href, PageDoc(Null, Null))>>) :
        t \in OrgTrees, m \in StructureMeta}

\* a page followed by a resource without a type attribute
NullTypeArchive ==
    Archive(<<Manifest(<<Resource(R2, WebContent, Page2Href, <<>>),
                         Resource(R1, Null, PageHref, <<>>)>>, CanvasItems(<<"Item 1">>)),
              CanvasMeta(Active, <<"1">>, <<"WikiPage">>),
              File(Page2Href, PageDoc(<<"Page Two">>, Active))>>)

\* a Canvas export of one module holding one page
CanvasArchive ==
    Archive(<<Manifest(<<Resource(R1, WebContent, PageHref, <<>>)>>, CanvasItems(<<"Item 1">>)),
              CanvasMeta(Active, <<"1">>, <<"WikiPage">>),
              File(PageHref, PageDoc(<<"Page One">>, Active))>>)

\* two modules "Week 1" and "Week 2" holding one item each:
\* <item LearningModules><item m1><item i1 ref1/></item><item m2><item i2 ref2/>
TwoModuleItems(ref1, ref2, title1, title2) ==
    <<OrgItem(Root, Null, Null, 0),
      OrgItem(M1, Null, <<"Week 1">>, 1),
      OrgItem(I1, ref1, title1, 2),
      OrgItem(M2, Null, <<"Week 2">>, 1),
      OrgItem(I2, ref2, title2, 4)>>

TwoModuleMeta(title1, title2) ==
    ModuleMeta(<<MetaModule(M1, <<"Week 1">>, Active,
                            <<MetaItem(I1, title1, Active, <<"1">>, <<"WikiPage">>)>>),
                 MetaModule(M2, <<"Week 2">>, Unpublished,
                            <<MetaItem(I2, title2, Active, <<"2">>, <<"WikiPage">>)>>)>>)

\* two pages r1 and r2 in the two modules: the module items name them by
\* identifierref or only by title, and the pages' own titles agree with the
\* module items' titles or not
MergeArchives ==
    {Archive(<<Manifest(<<Resource(R1, WebContent, PageHref, <<>>),
                          Resource(R2, WebContent, Page2Href, <<>>)>>,
                        TwoModuleItems(ref1, ref2, <<"Intro">>, title2))>>
             \o (IF meta THEN <<TwoModuleMeta(<<"Intro">>, title2)>> ELSE <<>>)
             \o <<File(PageHref, PageDoc(t1, Active)), File(Page2Href, PageDoc(t2, Active))>>) :
        ref1 \in {R1, Null}, ref2 \in {R2, Null},
        title2 \in {<<"Intro">>, <<"Else">>},
        t1 \in {<<"Intro">>, <<"Other">>, Null}, t2 \in {<<"Intro">>, Null},
        meta \in BOOLEAN}

\* <indent> texts of a module item: absent, empty, not a number, negative,
\* a number, a number followed by text, a number after blanks
IndentTexts ==
    {Null, <<>>, <<"a", "b", "c">>, <<"-", "1">>, <<"2">>, <<"2", "x">>, <<" ", "3">>}

\* the Canvas export of one page with every <indent> text, the page's own
\* title differing from the module item's or missing
IndentArchives ==
    {Archive(<<Manifest(<<Resource(R1, WebContent, PageHref, <<>>)>>, CanvasItems(<<"Item 1">>)),
               CanvasMeta(Active, indent, <<"WikiPage">>),
               File(PageHref, PageDoc(t, Active))>>) :
        indent \in IndentTexts, t \in {<<"Page One">>, Null}}

\* a module and its item with every combination of <workflow_state> elements
ModuleStatusArchives ==
    {Archive(<<Manifest(<<Resource(R1, WebContent, PageHref, <<>>)>>, CanvasItems(<<"Item 1">>)),
               ModuleMeta(<<MetaModule(M1, <<"Week 1">>, mws,
                                       <<MetaItem(I1, <<"Item 1">>, iws, <<"0">>, <<"WikiPage">>)>>)>>),
               File(PageHref, PageDoc(<<"Page One">>, Active))>>) :
        mws \in {Active, Unpublished, <<>>, Null}, iws \in {Active, Unpublished, Null}}

R3 == <<"r3">>
Page3Href == <<"wiki_content", "/", "s", ".", "html">>

\* three pages outside any module, each with elements to audit
ThreePageArchive ==
    Archive(<<Manifest(<<Resource(R1, WebContent, PageHref, <<>>),
                         Resource(R2, WebContent, Page2Href, <<>>),
                         Resource(R3, WebContent, Page3Href, <<>>)>>, <<>>),
              File(PageHref, PageDoc(<<"Page One">>, Active)),
              File(Page2Href, PageDoc(<<"Page Two">>, Active)),
              File(Page3Href, PageDoc(<<"Page Three">>, Unpublished))>>)

\* three different orders: the resources are declared r2, r1, the manifest
\* items are i1 (r1), i2 (r2), and module_meta.xml lists i2 before i1
OrderArchive ==
    Archive(<<Manifest(<<Resource(R2, WebContent, Page2Href, <<>>),
                         Resource(R1, WebContent, PageHref, <<>>)>>,
                       <<OrgItem(Root, Null, Null, 0),
                         OrgItem(M1, Null, <<"Week 1">>, 1),
                         OrgItem(I1, R1, <<"Item 1">>, 2),
                         OrgItem(I2, R2, <<"Item 2">>, 2)>>),
              ModuleMeta(<<MetaModule(M1, <<"Week 1">>, Active,
                                      <<MetaItem(I2, <<"Item 2">>, Active, <<"1">>, <<"WikiPage">>),
                                        MetaItem(I1, <<"Item 1">>, Active, <<"0">>, <<"WikiPage">>)>>)>>),
              File(PageHref, PageDoc(Null, Active)),
              File(Page2Href, PageDoc(Null, Active))>>)

\* module_meta.xml with the module m1 and its item i1, and a manifest
\* without any <item> below <organizations>
NoOrganizationsArchive ==
    Archive(<<Manifest(<<Resource(R1, WebContent, PageHref, <<>>)>>, <<>>),
              CanvasMeta(Active, <<"1">>, <<"WikiPage">>),
              File(PageHref, PageDoc(<<"Page One">>, Active))>>)

\* manifests of a dialect that writes its references identifierRef="...": a
\* quiz and a discussion with the companion d1, a page below the module m1
\* (with and without module_meta.xml) whose module item has another title
CamelItems ==
    <<OrgItem(Root, Null, Null, 0),
      OrgItem(M1, Null, <<"Week 1">>, 1),
      OrgItemCamel(I1, R1, <<"Item 1">>, 2)>>

CasingArchives ==
    {Archive(<<Manifest(<<ResourceCamel(R1, QtiMarker, Null, <<D1>>), Companion(MetaHref)>>, <<>>),
               File(MetaHref, CompanionDoc(<<"Quiz One">>, <<"true">>, <<"survey">>, Null, Null))>>),
     Archive(<<Manifest(<<ResourceCamel(R1, DiscussionMarker, Null, <<D1>>), Companion(D1Xml)>>, <<>>),
               File(R1Xml, TopicDoc(<<"Topic One">>)),
               File(D1Xml, CompanionDoc(Null, Null, Null, Active, <<"announcement">>))>>)}
    \cup {Archive(<<Manifest(<<Resource(R1, WebContent, PageHref, <<>>)>>, CamelItems)>>
                   \o meta \o <<File(PageHref, PageDoc(<<"Page One">>, Active))>>) :
             meta \in {<<>>, <<CanvasMeta(Active, <<"1">>, <<"WikiPage">>)>>}}

\* a page below a module whose <title> element is empty; the page's own
\* title differs from its module item's
EmptyModuleTitleArchive ==
    Archive(<<Manifest(<<Resource(R1, WebContent, PageHref, <<>>)>>,
                       <<OrgItem(Root, Null, Null, 0),
                         OrgItem(M1, Null, <<>>, 1),
                         OrgItem(I1, R1, <<"Item 1">>, 2)>>),
              File(PageHref, PageDoc(<<"Page One">>, Active))>>)

\* a course without any resource and without any module
EmptyCourseArchive == Archive(<<Manifest(<<>>, <<>>), ModuleMeta(<<>>)>>)

\* The files a user can select.
Archives ==
    OverlapArchives \cup PageArchives \cup AssignmentArchives \cup QuizArchives
        \cup DiscussionArchives \cup FailingArchives \cup StructureArchives
        \cup MergeArchives \cup IndentArchives \cup ModuleStatusArchives
        \cup {ScenarioArchive, NullTypeArchive, CanvasArchive, ThreePageArchive, OrderArchive,
              NoOrganizationsArchive, EmptyModuleTitleArchive, EmptyCourseArchive}
        \cup CasingArchives

\* The files selected in sessions of more than one selection.
SessionArchives == {ScenarioArchive, CanvasArchive, NullTypeArchive, NoManifestArchive}

\* selections per page session
MaxRuns == 2

SelectFile ==
    \E archive \in Archives :
        /\ Len(runs) < MaxRuns
        /\ runs # <<>> => runs[1].archive \in SessionArchives /\ archive \in SessionArchives
        /\ handleFile(archive)

Next ==
    \/ SelectFile
    \/ \E r \in 1..Len(runs) : ZipFailed(r)
    \/ \E r \in 1..Len(runs) : ZipLoaded(r)
    \/ \E r \in 1..Len(runs) : ReadEntry(r)
    \/ \E r \in 1..Len(runs), outcome \in AxeOutcomes : AxeDone(r, outcome)
    \/ \E box \in Checkboxes : ChangeFilter(box)

Spec == Init /\ [][Next]_vars

\* the page session of the draft src/js/main.js
DraftNext ==
    \/ SelectFile
    \/ \E r \in 1..Len(runs) : ZipFailed(r)
    \/ \E r \in 1..Len(runs) : DraftZipLoaded(r)
    \/ \E r \in 1..Len(runs) : DraftReadEntry(r)

DraftSpec == Init /\ [][DraftNext]_vars


(***************************************************************************)
(* Properties                                                              *)
(***************************************************************************)

Runs == 1..Len(runs)

\* processAndAnalyze of run r was called
Called(r) == runs[r].pc \in {"audit", "done"} \/ (runs[r].pc = "failed" /\ runs[r].error # "zip")

\* the synchronous part of processAndAnalyze of run r ended without an exception
Returned(r) == runs[r].pc \in {"audit", "done"}

\* the items and modules run r pushed to the page-global lists
ItemsOf(r) ==
    SubSeq(allCourseContent, runs[r].base.content + 1, runs[r].base.content + runs[r].base.items)

ModulesOf(r) ==
    SubSeq(courseStructure, runs[r].base.structure + 1,
           runs[r].base.structure + runs[r].base.modules)

\* the items of run r that came from resource id
ItemsFor(r, id) == {n \in 1..Len(ItemsOf(r)) : ItemsOf(r)[n].rid = id}

\* the analysis entries of run r that came from resource id
AnalysisFor(r, id) == {n \in 1..Len(runs[r].analysis) : runs[r].analysis[n].item.rid = id}

\* the <resource> elements of the manifest run r read
ResourcesOf(r) == Get(fileContents(runs[r]), ManifestName).resources

\* The first rule of section 4.3 that matches, in the order Link, Header,
\* File, Page, Assignment, Quiz/Survey, Discussion; "none" if no rule does.
FirstRule(type, href, contentType) ==
    CASE type # Null /\ Includes(type, LinkMarker) -> "link"
      [] OTHER ->
    CASE contentType = SubHeader -> "header"
      [] OTHER ->
    CASE type = WebContent /\ ~Falsy(href) /\ StartsWith(href, WebResourcesPrefix) -> "file"
      [] OTHER ->
    CASE type = WebContent /\ ~Falsy(href) /\ StartsWith(href, WikiPrefix) -> "page"
      [] OTHER ->
    CASE /\ type # Null /\ Includes(type, LarMarker)
         /\ ~Falsy(href) /\ EndsWith(href, Html) /\ ~StartsWith(href, CourseSettingsPrefix)
            -> "assignment"
      [] OTHER ->
    CASE type # Null /\ Includes(type, QtiMarker) -> "quiz"
      [] OTHER ->
    CASE type # Null /\ Includes(type, DiscussionMarker) -> "discussion"
      [] OTHER -> "none"

\* the clarified types a rule can give
RuleTypes(rule) ==
    CASE rule = "link" -> {<<"link">>}
      [] rule = "header" -> {<<"header">>}
      [] rule = "file" -> {<<"file">>}
      [] rule = "page" -> {<<"page">>}
      [] rule = "assignment" -> {<<"assignment">>}
      [] rule = "quiz" -> {<<"quiz">>, <<"survey">>}
      [] rule = "discussion" -> {<<"discussion">>, <<"announcement">>}
      [] OTHER -> {Unspecified}

\* the rule that decides iteration n of the resource loop of run r
RuleOf(r, n) ==
    LET e == runs[r].trace[n]
    IN  FirstRule(e.initial.type, e.initial.href, e.initial.contentType)

\* C1: for every classified resource the clarified type is the one of the
\* first matching rule in the order Link, Header, File, Page, Assignment,
\* Quiz/Survey, Discussion, and no later rule's effects are applied: a link, a
\* header and a file keep title and status and get no analysis target, a page
\* and an assignment are analysed as html, a quiz is not analysed as a
\* discussion body.
C1_FirstMatchingRuleWins ==
    \A r \in Runs : \A n \in 1..Len(runs[r].trace) :
        LET e == runs[r].trace[n]
            rule == RuleOf(r, n)
        IN  ~e.threw =>
              /\ e.itemData.clarifiedType \in RuleTypes(rule)
              /\ rule \in {"link", "header", "file"} =>
                    /\ e.itemData = [e.initial EXCEPT !.clarifiedType = e.itemData.clarifiedType]
                    /\ e.analysisHref = Null
              /\ rule \in {"page", "assignment"} => e.analysisType = "html"
              /\ rule = "quiz" => e.analysisType # "discussion_xml"

\* iteration n of run r is decided by no rule at all
Unmatched(r, id) ==
    \A n \in 1..Len(runs[r].trace) :
        runs[r].trace[n].initial.rid = id => RuleOf(r, n) = "none"

\* C2: a manifest resource that matches none of the classification rules is
\* absent from the content list.
C2_UnmatchedNotListed ==
    \A r \in Runs : Called(r) =>
        \A i \in 1..Len(ResourcesOf(r)) :
            Unmatched(r, ResourcesOf(r)[i].identifier)
                => ItemsFor(r, ResourcesOf(r)[i].identifier) = {}

\* C2 witness: a run has returned, one of its resources with a type matched no
\* rule, and another of its resources is in the content list.
C2_Witness ==
    \E r \in Runs :
        /\ runs[r].pc = "done"
        /\ ItemsOf(r) # <<>>
        /\ \E n \in 1..Len(runs[r].trace) :
              /\ RuleOf(r, n) = "none"
              /\ ~Falsy(runs[r].trace[n].initial.type)

\* the first dependency of the resource resolves to a companion file
DependencyResolves(fc, resource) ==
    /\ resource.dependencies # <<>>
    /\ \E i \in 1..Len(Get(fc, ManifestName).resources) :
          LET c == Get(fc, ManifestName).resources[i]
          IN  c.identifier = resource.dependencies[1] /\ Truthy(fc, c.href)

\* the <resource> element with that identifier
ResourceNamed(r, id) ==
    ResourcesOf(r)[CHOOSE i \in 1..Len(ResourcesOf(r)) : ResourcesOf(r)[i].identifier = id]

\* C3: a resource decided by the quiz rule whose first dependency is missing,
\* undeclared or without a companion file is classified without an exception
\* and recorded in the content list as a quiz without an analysis target.
C3_UnresolvedQuizIsQuiz ==
    \A r \in Runs : \A n \in 1..Len(runs[r].trace) :
        LET e == runs[r].trace[n]
        IN  (/\ RuleOf(r, n) = "quiz"
             /\ ~DependencyResolves(fileContents(runs[r]), ResourceNamed(r, e.initial.rid)))
            => /\ ~e.threw
               /\ ItemsFor(r, e.initial.rid) # {}
               /\ \A k \in ItemsFor(r, e.initial.rid) : ItemsOf(r)[k].clarifiedType = <<"quiz">>
               /\ AnalysisFor(r, e.initial.rid) = {}


\* the lists one run leaves on a fresh page
Fresh(archive) == processAndAnalyze(ReadEntries(archive, Len(zipFiles(archive))), <<>>, <<>>)

\* C4: after the pipeline has run twice, one run after the other, on the same
\* archive, the content list and the module list are what they were after
\* the first run.
C4_SecondRunIdempotent ==
    (/\ Len(runs) = 2
     /\ runs[1].archive = runs[2].archive
     /\ runs[1].pc = "done" /\ runs[2].pc = "done"
     /\ runs[1].base.content = 0)
    => /\ allCourseContent = Fresh(runs[1].archive).content
       /\ courseStructure = Fresh(runs[1].archive).structure

\* the companion document the first dependency of a resource resolves to
\* through the manifest's resources
CompanionOf(fc, resource) ==
    LET rs == Get(fc, ManifestName).resources
        i == CHOOSE i \in 1..Len(rs) : rs[i].identifier = resource.dependencies[1]
    IN  Get(fc, rs[i].href)

\* C5: a resource decided by the discussion rule whose body {identifier}.xml
\* exists and whose first dependency resolves through the manifest to a
\* companion file holding <type>announcement</type> is an announcement, with
\* the status of the companion's workflow_state.
C5_AnnouncementOverride ==
    \A r \in Runs : \A n \in 1..Len(runs[r].trace) :
        LET e == runs[r].trace[n]
            fc == fileContents(runs[r])
            res == ResourceNamed(r, e.initial.rid)
        IN  (/\ ~e.threw
             /\ RuleOf(r, n) = "discussion"
             /\ Truthy(fc, e.initial.rid \o DotXml)
             /\ DependencyResolves(fc, res)
             /\ CompanionOf(fc, res).type = <<"announcement">>)
            => \A k \in ItemsFor(r, e.initial.rid) :
                  /\ ItemsOf(r)[k].clarifiedType = <<"announcement">>
                  /\ ItemsOf(r)[k].status =
                        (IF CompanionOf(fc, res).workflow_state = Active
                         THEN Active ELSE Unpublished)

\* C6: an item resolved as page is active if and only if its HTML is in the
\* file mapping and holds a workflow_state meta tag with content "active";
\* otherwise it is unpublished.
C6_PageStatusFromMeta ==
    \A r \in Runs : \A k \in 1..Len(ItemsOf(r)) :
        LET item == ItemsOf(r)[k]
            fc == fileContents(runs[r])
        IN  item.clarifiedType = <<"page">> =>
              item.status = (IF Truthy(fc, ResourceNamed(r, item.rid).href)
                                /\ Get(fc, ResourceNamed(r, item.rid).href).meta = Active
                             THEN Active ELSE Unpublished)

\* the archive paths below "R/" that end with the suffix
PathsBelow(fc, id, suffix) ==
    {fc[i].name : i \in {i \in 1..Len(fc) : /\ StartsWith(fc[i].name, id \o Slash)
                                            /\ EndsWith(fc[i].name, suffix)}}

\* C7: for an item classified as assignment from resource R: if a path below
\* "R/" ends with assignment_settings.xml, the status is active iff that
\* file's workflow_state is "active" and the title is that file's title when
\* it has one; if a path below "R/" ends with .html, such a path is the
\* analysis target, with format html.  In the scenario of the specification
\* the item is {HW1, assignment, active} with target (r1/foo.html, html).
C7_AssignmentSettingsAndTarget ==
    \A r \in Runs : Returned(r) =>
        /\ \A k \in 1..Len(ItemsOf(r)) :
              LET item == ItemsOf(r)[k]
                  fc == fileContents(runs[r])
                  settings == PathsBelow(fc, item.rid, AssignmentSettingsXml)
                  pages == PathsBelow(fc, item.rid, DotHtml)
              IN  item.clarifiedType = <<"assignment">> =>
                    /\ settings # {} =>
                          \E p \in settings :
                              /\ item.status = (IF Get(fc, p).workflow_state = Active
                                                THEN Active ELSE Unpublished)
                              /\ ~Falsy(Get(fc, p).title) => item.title = Get(fc, p).title
                    /\ pages # {} =>
                          \E n \in AnalysisFor(r, item.rid) :
                              /\ runs[r].analysis[n].item.href \in pages
                              /\ runs[r].analysis[n].analysisType = "html"
        /\ runs[r].archive = ScenarioArchive =>
              /\ Len(ItemsOf(r)) = 1
              /\ ItemsOf(r)[1].title = <<"HW1">>
              /\ ItemsOf(r)[1].clarifiedType = <<"assignment">>
              /\ ItemsOf(r)[1].status = Active
              /\ Len(runs[r].analysis) = 1
              /\ runs[r].analysis[1].item.href = AssignHref
              /\ runs[r].analysis[1].analysisType = "html"

\* C7 witness: a run on an archive that holds another resource's settings
\* before r1's own has listed r1 as the assignment HW1 with an analysis target.
C7_Witness ==
    \E r \in Runs :
        /\ runs[r].pc = "done"
        /\ Has(fileContents(runs[r]), DecoySettingsPath)
        /\ Has(fileContents(runs[r]), AssignSettingsPath)
        /\ \E k \in 1..Len(ItemsOf(r)) :
              /\ ItemsOf(r)[k].clarifiedType = <<"assignment">>
              /\ ItemsOf(r)[k].title = <<"HW1">>
        /\ AnalysisFor(r, R1) # {}


\* processAndAnalyze of run r got past the manifest check
Parsed(r) == Called(r) /\ runs[r].error # "manifest"

\* the <item> elements of the manifest run r read
OrgItemsOf(r) == Get(fileContents(runs[r]), ManifestName).items

C9_MissingManifestAborts ==
    \A r \in Runs :
        (Called(r) /\ ~Has(fileContents(runs[r]), ManifestName)) =>
            /\ runs[r].pc = "failed"
            /\ runs[r].error = "manifest"
            /\ runs[r].stages = <<>>
            /\ runs[r].trace = <<>>
            /\ runs[r].analysis = <<>>
            /\ runs[r].base.items = 0 /\ runs[r].base.modules = 0
            /\ (\A q \in Runs : runs[q].pc # "done") => ui.resultsHidden

\* C9 witness: a run has read every entry of an archive that holds files but
\* no manifest, and has failed.
C9_Witness ==
    \E r \in Runs :
        /\ runs[r].pc = "failed"
        /\ runs[r].k > 0
        /\ ~Has(fileContents(runs[r]), ManifestName)

\* C10: when the file mapping holds imsmanifest.xml, classification raises no
\* error to the caller, and every declared resource is classified, also those
\* after a resource without a type or href attribute.
C10_ClassificationNeverThrows ==
    \A r \in Runs :
        (Called(r) /\ Truthy(fileContents(runs[r]), ManifestName)) =>
            /\ runs[r].error = "none"
            /\ \A i \in 1..Len(ResourcesOf(r)) :
                  \E n \in 1..Len(runs[r].trace) :
                      /\ runs[r].trace[n].initial.rid = ResourcesOf(r)[i].identifier
                      /\ ~runs[r].trace[n].threw

\* module item it of run r resolves to the n-th item of the run: its
\* identifierref names the resource the item came from or, when it names no
\* item of the list, the item is the first one with the module item's title
ResolvesTo(r, it, n) ==
    IF \E q \in 1..Len(ItemsOf(r)) : ItemsOf(r)[q].rid = it.identifierref
    THEN ItemsOf(r)[n].rid = it.identifierref
    ELSE /\ ItemsOf(r)[n].title = it.title
         /\ \A q \in 1..(n - 1) : ItemsOf(r)[q].title # it.title

\* the module items of run r, as pairs <<module, position in the module>>
ModuleItemsOf(r) ==
    UNION {{<<k, m>> : m \in 1..Len(ModulesOf(r)[k].items)} : k \in 1..Len(ModulesOf(r))}

\* C11: in the final content list of a run on a fresh page, inModule is true
\* for an item if and only if at least one module item of the module list
\* resolves to it, through its identifier reference or, failing that,
\* through title equality.
C11_InModuleIffResolved ==
    \A r \in Runs :
        (Len(runs) = 1 /\ Returned(r)) =>
            \A n \in 1..Len(ItemsOf(r)) :
                ItemsOf(r)[n].inModule
                    <=> \E km \in ModuleItemsOf(r) :
                            ResolvesTo(r, ModulesOf(r)[km[1]].items[km[2]], n)

\* C12: in the final content list of a run on a fresh page, the item that a
\* module item names by its identifier reference is in a module, and when no
\* other module item resolves to it, it has the title of that module item's
\* module and that module item's indent.
C12_MergeByIdentifierFirst ==
    \A r \in Runs :
        (Len(runs) = 1 /\ Returned(r)) =>
            \A km \in ModuleItemsOf(r) : \A n \in 1..Len(ItemsOf(r)) :
                LET it == ModulesOf(r)[km[1]].items[km[2]]
                IN  (/\ ItemsOf(r)[n].rid = it.identifierref
                     /\ \A other \in ModuleItemsOf(r) \ {km} :
                            ~ResolvesTo(r, ModulesOf(r)[other[1]].items[other[2]], n))
                        => /\ ItemsOf(r)[n].inModule
                           /\ ItemsOf(r)[n].moduleTitle = ModulesOf(r)[km[1]].title
                           /\ ItemsOf(r)[n].indent = it.indent

\* the paths that can hold the analyzable body of an item of run r: the href
\* of a page, the .html paths below "{identifier}/" of an assignment, the href
\* of the companion resource of a quiz or survey, "{identifier}.xml" of a
\* discussion or announcement
BodyFiles(r, item) ==
    LET fc == fileContents(runs[r])
        resource == ResourceNamed(r, item.rid)
        companions == {i \in 1..Len(ResourcesOf(r)) :
                          /\ resource.dependencies # <<>>
                          /\ ResourcesOf(r)[i].identifier = resource.dependencies[1]}
    IN  CASE item.clarifiedType = <<"page">> -> {item.href}
          [] item.clarifiedType = <<"assignment">> -> PathsBelow(fc, item.rid, DotHtml)
          [] item.clarifiedType \in {<<"quiz">>, <<"survey">>} ->
                {ResourcesOf(r)[i].href : i \in companions}
          [] item.clarifiedType \in {<<"discussion">>, <<"announcement">>} ->
                {item.rid \o DotXml}
          [] OTHER -> {}

\* C13: in the content list of a run that returned, no item of clarified type
\* file, link or header has an entry in the analysis list, and every page,
\* assignment, quiz, survey, discussion or announcement whose body file is
\* present and non-empty in the file mapping has an entry in the analysis
\* list that names a body file of the item.
C13_AnalysisTargets ==
    \A r \in Runs :
        Returned(r) =>
            \A n \in 1..Len(ItemsOf(r)) :
                LET item == ItemsOf(r)[n]
                IN  /\ item.clarifiedType \in {<<"file">>, <<"link">>, <<"header">>}
                        => AnalysisFor(r, item.rid) = {}
                    /\ (\E path \in BodyFiles(r, item) : Truthy(fileContents(runs[r]), path))
                        => \E a \in AnalysisFor(r, item.rid) :
                              runs[r].analysis[a].item.href \in BodyFiles(r, item)

\* C13 witness: a run has listed a header without an analysis entry and a
\* page whose file is present with an analysis entry naming that file.
C13_Witness ==
    \E r \in Runs :
        /\ Returned(r)
        /\ \E n \in 1..Len(ItemsOf(r)) :
              /\ ItemsOf(r)[n].clarifiedType = <<"header">>
              /\ AnalysisFor(r, ItemsOf(r)[n].rid) = {}
        /\ \E n \in 1..Len(ItemsOf(r)) :
              /\ ItemsOf(r)[n].clarifiedType = <<"page">>
              /\ Truthy(fileContents(runs[r]), ItemsOf(r)[n].href)
              /\ \E a \in AnalysisFor(r, ItemsOf(r)[n].rid) :
                    runs[r].analysis[a].item.href = ItemsOf(r)[n].href

\* C14: every item in the content list has status "active" or "unpublished".
C14_StatusActiveOrUnpublished ==
    \A n \in 1..Len(allCourseContent) : allCourseContent[n].status \in {Active, Unpublished}

\* C14 witness: a run without module_meta.xml has listed a page whose file is
\* missing from the archive and a quiz whose companion file is missing, both
\* unpublished.
C14_Witness ==
    \E r \in Runs :
        /\ Returned(r)
        /\ ~Has(fileContents(runs[r]), ModuleMetaName)
        /\ \E n \in 1..Len(ItemsOf(r)) :
              LET item == ItemsOf(r)[n]
              IN  /\ item.status = Unpublished
                  /\ \/ isPage(item.type, item.href) /\ ~Has(fileContents(runs[r]), item.href)
                     \/ /\ isQuizOrSurvey(item.type)
                        /\ ~DependencyResolves(fileContents(runs[r]), ResourceNamed(r, item.rid))

\* the <module> elements of the module_meta.xml run r read
MetaModulesOf(r) == Get(fileContents(runs[r]), ModuleMetaName).modules

C16_IndentNonNegative ==
    /\ \A k \in 1..Len(courseStructure) : \A m \in 1..Len(courseStructure[k].items) :
          /\ ~courseStructure[k].items[m].indent.nan
          /\ courseStructure[k].items[m].indent.n >= 0
    /\ \A n \in 1..Len(allCourseContent) :
          /\ ~allCourseContent[n].indent.nan
          /\ allCourseContent[n].indent.n >= 0

\* the records of resource id among the aggregated results of run r
RecordsFor(r, id) ==
    {cn \in UNION {{<<c, n>> : n \in 1..Len(runs[r].allResults[c])} : c \in DOMAIN NoResults} :
        runs[r].allResults[cn[1]][cn[2]].rid = id}

\* C17: for every item that axe.run has settled for in a run: if axe.run
\* threw, the aggregated results hold no record of the item; if it returned,
\* they hold a record for every issue it returned, in the issue's category.
\* When the run is done, axe.run has settled once for every analysis item
\* that has elements to audit, in the order of the analysis list, whatever
\* threw on the way; in a session of one run the stored results are the
\* aggregated ones.
C17_AuditFailureIsPerItem ==
    \A r \in Runs :
        LET run == runs[r]
            audited == {j \in 1..Len(run.analysis) : Audited(fileContents(run), run.analysis[j])}
        IN  /\ \A n \in 1..Len(run.outcomes) :
                  LET o == run.outcomes[n]
                      item == run.analysis[o.j].item
                  IN  IF o.outcome.throws
                      THEN RecordsFor(r, item.rid) = {}
                      ELSE \A c \in DOMAIN NoResults : \A i \in 1..Len(o.outcome.results[c]) :
                              \E q \in 1..Len(run.allResults[c]) :
                                  /\ run.allResults[c][q].rule = o.outcome.results[c][i]
                                  /\ run.allResults[c][q].rid = item.rid
                                  /\ run.allResults[c][q].itemTitle = item.title
            /\ run.pc = "done" =>
                  /\ {run.outcomes[n].j : n \in 1..Len(run.outcomes)} = audited
                  /\ \A n \in 1..(Len(run.outcomes) - 1) : run.outcomes[n].j < run.outcomes[n + 1].j
                  /\ Len(runs) = 1 => accessibilityData = run.allResults

\* C17 witness: a run is done in which axe.run threw for the second of three
\* audited items and returned violations for the first and the third, and
\* the aggregated violations are those of the first and the third.
C17_Witness ==
    \E r \in Runs :
        /\ runs[r].pc = "done"
        /\ Len(runs[r].outcomes) = 3
        /\ ~runs[r].outcomes[1].outcome.throws /\ runs[r].outcomes[1].outcome.results.violations # <<>>
        /\ runs[r].outcomes[2].outcome.throws
        /\ ~runs[r].outcomes[3].outcome.throws /\ runs[r].outcomes[3].outcome.results.violations # <<>>
        /\ [n \in 1..Len(runs[r].allResults.violations) |-> runs[r].allResults.violations[n].rid]
                = <<R1, R3>>

\* C18: every aggregated record of a run on a fresh page carries the title,
\* the status and the module title that the item it comes from has in the
\* content list after the merge.
C18_IssuesCarryMergedItem ==
    \A r \in Runs :
        Len(runs) = 1 =>
            \A c \in DOMAIN NoResults : \A q \in 1..Len(runs[r].allResults[c]) :
                LET record == runs[r].allResults[c][q]
                IN  \A n \in ItemsFor(r, record.rid) :
                        /\ record.itemTitle = ItemsOf(r)[n].title
                        /\ record.status = ItemsOf(r)[n].status
                        /\ record.moduleTitle = ItemsOf(r)[n].moduleTitle

\* C19: a module built from a <module> of module_meta.xml is active if and
\* only if the text of the module's own <workflow_state> is "active"; without
\* a <workflow_state> of its own it is unpublished, whatever its items hold.
C19_ModuleStatusFromOwnState ==
    \A r \in Runs :
        (Returned(r) /\ Truthy(fileContents(runs[r]), ModuleMetaName)) =>
            \A k \in 1..Len(ModulesOf(r)) :
                /\ ModulesOf(r)[k].status \in {Active, Unpublished}
                /\ ModulesOf(r)[k].status = Active
                        <=> MetaModulesOf(r)[k].workflow_state = Active

\* position of the first <resource> with that identifier in the manifest of run r
DeclaredAt(r, id) ==
    CHOOSE i \in 1..Len(ResourcesOf(r)) :
        /\ ResourcesOf(r)[i].identifier = id
        /\ \A j \in 1..(i - 1) : ResourcesOf(r)[j].identifier # id

\* C20: in every state after the resource loop of a run returned (after the
\* merge, the rendering and the audits): the items of the run stand in the
\* content list in the order in which their resources are declared in the
\* manifest; the items of each module built from module_meta.xml are those
\* of its <module>, in document order, and the items of each module built
\* from the manifest are in document order of their <item> elements; the
\* structure view shows the module items in the same order.
C20_OrderPreserved ==
    \A r \in Runs :
        Returned(r) =>
            /\ \A a, b \in 1..Len(ItemsOf(r)) :
                  a < b <=> DeclaredAt(r, ItemsOf(r)[a].rid) < DeclaredAt(r, ItemsOf(r)[b].rid)
            /\ \A k \in 1..Len(ModulesOf(r)) :
                  LET its == ModulesOf(r)[k].items
                      shown == runs[r].base.structure + k
                  IN  /\ IF Truthy(fileContents(runs[r]), ModuleMetaName)
                         THEN /\ Len(its) = Len(MetaModulesOf(r)[k].items)
                              /\ \A m \in 1..Len(its) :
                                    its[m].identifier = MetaModulesOf(r)[k].items[m].identifier
                         ELSE \A m \in 1..(Len(its) - 1) :
                                    its[m].manifestItem < its[m + 1].manifestItem
                      /\ Len(ui.structure) >= shown
                            => /\ Len(ui.structure[shown].rows) = Len(its)
                               /\ \A m \in 1..Len(its) :
                                     ui.structure[shown].rows[m].title = its[m].title

\* C20 witness: a run is done that listed r2 before r1, as declared, merged
\* both into a module that module_meta.xml fills in another order than the
\* manifest, and the structure view shows that module.
C20_Witness ==
    \E r \in Runs :
        /\ runs[r].pc = "done"
        /\ Truthy(fileContents(runs[r]), ModuleMetaName)
        /\ [n \in 1..Len(ItemsOf(r)) |-> ItemsOf(r)[n].rid] = <<R2, R1>>
        /\ \A n \in 1..Len(ItemsOf(r)) : ItemsOf(r)[n].moduleTitle = <<"Week 1">>
        /\ \E k \in 1..Len(ModulesOf(r)) :
              /\ Len(ModulesOf(r)[k].items) = 2
              /\ ModulesOf(r)[k].items[1].manifestItem > ModulesOf(r)[k].items[2].manifestItem
              /\ Len(ui.structure) >= runs[r].base.structure + k

\* the first path of the file mapping below "{id}/" that ends with suffix
FirstPathBelow(fc, id, suffix) ==
    LET at == {i \in 1..Len(fc) : /\ StartsWith(fc[i].name, id \o Slash)
                                  /\ EndsWith(fc[i].name, suffix)}
    IN  fc[CHOOSE i \in at : \A j \in at : i <= j].name

\* the files whose <title> the rules of section 4.3 read for an item of run
\* r: the page itself, the settings file of an assignment, the companion of
\* a quiz or survey, the topic file of a discussion or announcement
TitleSources(r, item) ==
    LET fc == fileContents(runs[r])
        paths == CASE item.clarifiedType = <<"page">> -> {item.href}
                   [] item.clarifiedType = <<"assignment">> ->
                        IF PathsBelow(fc, item.rid, AssignmentSettingsXml) = {} THEN {}
                        ELSE {FirstPathBelow(fc, item.rid, AssignmentSettingsXml)}
                   [] item.clarifiedType \in {<<"quiz">>, <<"survey">>} ->
                        {ResourcesOf(r)[i].href : i \in
                            {i \in 1..Len(ResourcesOf(r)) :
                                /\ ResourceNamed(r, item.rid).dependencies # <<>>
                                /\ ResourcesOf(r)[i].identifier
                                        = ResourceNamed(r, item.rid).dependencies[1]}}
                   [] item.clarifiedType \in {<<"discussion">>, <<"announcement">>} ->
                        {item.rid \o DotXml}
                   [] OTHER -> {}
    IN  {path \in paths : Truthy(fc, path)}

C22_ModulesFromModuleMeta ==
    \A r \in Runs :
        (Returned(r) /\ Truthy(fileContents(runs[r]), ModuleMetaName)) =>
            /\ Len(ModulesOf(r)) = Len(MetaModulesOf(r))
            /\ \A k \in 1..Len(ModulesOf(r)) :
                  /\ Len(ModulesOf(r)[k].items) = Len(MetaModulesOf(r)[k].items)
                  /\ ~Falsy(MetaModulesOf(r)[k].title)
                        => ModulesOf(r)[k].title = MetaModulesOf(r)[k].title

\* the stages of processAndAnalyze and what follows it, in program order
AllStages == <<"modules", "classify", "merge", "display", "extract", "audit", "complete">>

\* what holds of run r in every state: it has entered the stages in program
\* order; processAndAnalyze was called only with every entry read; and it is
\* complete only with axe.run settled for every analysis item that has
\* elements to audit
StagesInOrder(r) ==
    LET run == runs[r]
        audited == {j \in 1..Len(run.analysis) : Audited(fileContents(run), run.analysis[j])}
    IN  /\ Len(run.stages) <= Len(AllStages)
        /\ run.stages = SubSeq(AllStages, 1, Len(run.stages))
        /\ run.stages # <<>> => run.k = Len(zipFiles(run.archive))
        /\ run.pc = "audit" <=> (run.stages # <<>> /\ run.stages[Len(run.stages)] = "audit")
        /\ run.pc = "done" <=> (run.stages # <<>> /\ run.stages[Len(run.stages)] = "complete")
        /\ run.pc = "done" => {run.outcomes[n].j : n \in 1..Len(run.outcomes)} = audited

\* one step of run r: it moves forward only, from decompression to reading
\* the entries, to the audit, to completion, and each audit step settles
\* the item under audit and goes on to a later one
StepsForward(r) ==
    /\ <<runs[r].pc, runs'[r].pc>> \in
            {<<"unzip", "unzip">>, <<"unzip", "read">>, <<"unzip", "failed">>,
             <<"unzip", "audit">>, <<"unzip", "done">>,
             <<"read", "read">>, <<"read", "audit">>, <<"read", "done">>, <<"read", "failed">>,
             <<"audit", "audit">>, <<"audit", "done">>,
             <<"done", "done">>, <<"failed", "failed">>}
    /\ runs'[r].k >= runs[r].k
    /\ (runs[r].pc = "audit" /\ runs'[r] # runs[r]) =>
            /\ Len(runs'[r].outcomes) = Len(runs[r].outcomes) + 1
            /\ runs'[r].outcomes[Len(runs'[r].outcomes)].j = runs[r].j
            /\ runs'[r].pc = "audit" => runs'[r].j > runs[r].j

\* C23: within a run the stages come in the order extraction, modules and
\* classification, merge, display, per-item extraction, audit, completion;
\* progress 100 and the revealed results section are reached only when a
\* run is done, which it is only after axe.run has settled for every
\* analysis item that has elements to audit.
C23_StagesInOrder ==
    /\ [](\A r \in Runs : StagesInOrder(r))
    /\ []((ui.progress = 100 \/ ~ui.resultsHidden) => \E r \in Runs : runs[r].pc = "done")
    /\ [][\A r \in Runs : StepsForward(r)]_vars

\* C23 witness: a run has gone through every stage and is done after axe.run
\* settled for its three pages, and the results are revealed at progress 100.
C23_Witness ==
    \E r \in Runs :
        /\ runs[r].pc = "done"
        /\ runs[r].stages = AllStages
        /\ Len(runs[r].outcomes) = 3
        /\ ui.progress = 100 /\ ~ui.resultsHidden

\* run q is classified or audited in this step
Works(q) ==
    \/ ~Called(q) /\ (runs'[q].pc \in {"audit", "done"}
                        \/ (runs'[q].pc = "failed" /\ runs'[q].error # "zip"))
    \/ Len(runs'[q].outcomes) > Len(runs[q].outcomes)

\* C24: whenever a run is classified or has an item audited, no other run is
\* suspended at the decompression of the archive or of an entry or at the
\* audit call, so that no work of one run falls between two steps of another.
C24_RunsNeverInterleave ==
    [][\A q \in Runs : Works(q) =>
            \A r \in Runs \ {q} : runs[r].pc \notin {"unzip", "read", "audit"}]_vars

\* C25: for a resource decided by the discussion rule whose first dependency
\* resolves through the manifest to a companion file, the item has the
\* status of the companion's workflow_state and is an announcement exactly
\* when the companion's <type> is "announcement", whether or not the topic
\* file {identifier}.xml is in the file mapping.
C25_DependencyLookupWithoutBody ==
    \A r \in Runs : \A n \in 1..Len(runs[r].trace) :
        LET e == runs[r].trace[n]
            fc == fileContents(runs[r])
            res == ResourceNamed(r, e.initial.rid)
        IN  (/\ ~e.threw
             /\ RuleOf(r, n) = "discussion"
             /\ DependencyResolves(fc, res))
            => \A k \in ItemsFor(r, e.initial.rid) :
                  /\ ItemsOf(r)[k].clarifiedType =
                        (IF CompanionOf(fc, res).type = <<"announcement">>
                         THEN <<"announcement">> ELSE <<"discussion">>)
                  /\ ItemsOf(r)[k].status = StatusOf(CompanionOf(fc, res).workflow_state)

\* C26: in the final content list of a run on a fresh page, every item with
\* inModule = TRUE has the title of a module holding a module item that
\* resolves to it, and that module item's indent.
C26_MembershipFromResolvingItem ==
    \A r \in Runs :
        (Len(runs) = 1 /\ Returned(r)) =>
            \A n \in 1..Len(ItemsOf(r)) :
                ItemsOf(r)[n].inModule =>
                    \E km \in ModuleItemsOf(r) :
                        /\ ResolvesTo(r, ModulesOf(r)[km[1]].items[km[2]], n)
                        /\ ItemsOf(r)[n].moduleTitle = ModulesOf(r)[km[1]].title
                        /\ ItemsOf(r)[n].indent = ModulesOf(r)[km[1]].items[km[2]].indent

\* a <resource> and an <item> with every reference written identifierref="..."
LowerCaseResource(res) ==
    [res EXCEPT !.dependencies = [d \in 1..Len(res.dependencies) |->
                                    IF res.dependencies[d] # Null THEN res.dependencies[d]
                                    ELSE res.dependencyRefs[d]],
                !.dependencyRefs = [d \in 1..Len(res.dependencies) |-> Null]]

LowerCaseItem(it) ==
    [it EXCEPT !.identifierref = IF it.identifierref # Null THEN it.identifierref
                                 ELSE it.identifierRef,
               !.identifierRef = Null]

\* the archive whose manifest differs only in the casing of that attribute name
LowerCased(archive) ==
    [archive EXCEPT !.entries =
        [i \in 1..Len(archive.entries) |->
            LET f == archive.entries[i]
            IN  IF f.name = ManifestName /\ ~f.dir
                THEN [f EXCEPT !.content =
                        [f.content EXCEPT
                            !.resources = [k \in 1..Len(f.content.resources) |->
                                              LowerCaseResource(f.content.resources[k])],
                            !.items = [k \in 1..Len(f.content.items) |->
                                          LowerCaseItem(f.content.items[k])]]]
                ELSE f]]

\* the manifest of the archive writes some reference identifierRef="..."
WritesCamel(archive) == archive.zipOk /\ LowerCased(archive) # archive

\* what a run decided about each resource: the clarified type and the module
\* membership of its items, and the files handed to the audit for it
Decisions(content, analysis) ==
    [items |-> [n \in 1..Len(content) |->
                  [rid |-> content[n].rid, clarifiedType |-> content[n].clarifiedType,
                   inModule |-> content[n].inModule, moduleTitle |-> content[n].moduleTitle]],
     targets |-> [n \in 1..Len(analysis) |->
                    [rid |-> analysis[n].item.rid, href |-> analysis[n].item.href]]]

DecisionsOf(pa) == Decisions(pa.content, pa.analysis)

\* C27: a run on a fresh page over a manifest that writes references as
\* identifierRef decides the companion handed to the audit, the clarified
\* type and the module membership of every item exactly as a run over the
\* same manifest with the references written identifierref.
C27_CasingTolerated ==
    \A r \in Runs :
        (Len(runs) = 1 /\ Returned(r) /\ WritesCamel(runs[r].archive)) =>
            Decisions(ItemsOf(r), runs[r].analysis) = DecisionsOf(Fresh(LowerCased(runs[r].archive)))

\* the stored issues of the result categories that have a checkbox
FilterableIssues ==
    {accessibilityData[c][n] : <<c, n>> \in
        UNION {{<<c, n>> : n \in 1..Len(accessibilityData[c])} :
                  c \in {"violations", "passes", "incomplete"}}}

\* the issues rendered in the accessibility tab
ShownIssues == {ui.results[n] : n \in 1..Len(ui.results)}

HasModuleTitle(issue) == issue.moduleTitle # Null /\ issue.moduleTitle # <<>>

\* the filters other than the two location checkboxes let the issue through
OtherFiltersMatch(issue) ==
    /\ \E c \in ui.controls.categories :
          \E n \in 1..Len(accessibilityData[c]) : accessibilityData[c][n] = issue
    /\ ui.controls.itemTypeBoxes # {} => issue.itemType \in ui.controls.itemTypes
    /\ issue.status \in ui.controls.statuses

\* C28: whenever the accessibility tab is set up, an issue is shown if and
\* only if its other filters match and either 'In a Module' is checked and
\* it has a module title, or 'Not in a Module' is checked and it has none.
C28_LocationFiltersIndependent ==
    ui.controls.built =>
        \A issue \in FilterableIssues \cup ShownIssues :
            issue \in ShownIssues <=>
                /\ OtherFiltersMatch(issue)
                /\ \/ ui.controls.moduleIn /\ HasModuleTitle(issue)
                   \/ ui.controls.moduleOut /\ ~HasModuleTitle(issue)

\* C28 witness: only 'Not in a Module' is checked; an issue without a module
\* title is shown and an issue with one, which the other filters let
\* through, is not.
C28_Witness ==
    /\ ui.controls.built /\ ~ui.controls.moduleIn /\ ui.controls.moduleOut
    /\ \E issue \in ShownIssues : ~HasModuleTitle(issue)
    /\ \E issue \in FilterableIssues \ ShownIssues :
          OtherFiltersMatch(issue) /\ HasModuleTitle(issue)

\* C29: every item of the content list has a module title if and only if it
\* is marked as being in a module.
C29_ModuleTitleIffInModule ==
    \A n \in 1..Len(allCourseContent) :
        HasModuleTitle(allCourseContent[n]) <=> allCourseContent[n].inModule

\* the same with a module title that may be the empty text
C29_ModuleTitleSetIffInModule ==
    \A n \in 1..Len(allCourseContent) :
        allCourseContent[n].moduleTitle # Null <=> allCourseContent[n].inModule

\* C30: a step in which a run aborts because imsmanifest.xml or
\* course_settings/module_meta.xml is missing leaves the shared lists of
\* items and of modules as they were when the run started (no run changes
\* them before its processAndAnalyze, which runs within that one step).
C30_AbortLeavesNothing ==
    [][\A r \in 1..Len(runs) :
          (/\ runs[r].pc # "failed"
           /\ runs'[r].pc = "failed"
           /\ runs'[r].error \in {"manifest", "module_meta"})
          => UNCHANGED <<allCourseContent, courseStructure>>]_vars

====
